---- MODULE Spec2Model ----
(***************************************************************************)
(* Model of the test-fixer engine of src/src/test_fixer.py: the stopping   *)
(* evaluator (check_stopping_conditions), the continuation question        *)
(* (should_continue_fixing), the verification run (run_tests) and the fix  *)
(* loop (fix_tests) driven through the oracle double of                    *)
(* src/claude_service.py (FakeClaudeService); and of the extraction loop   *)
(* of src/src/refactoring_agent.py (_refactor_class) with its attempt      *)
(* ledger.                                                                 *)
(*                                                                         *)
(* Text is modelled at the granularity of lexical atoms: a text is a       *)
(* sequence of atoms, an atom is a token of the oracle protocol in one of  *)
(* its spellings, a word of free text, or a blank.  Substring search for a *)
(* token is membership of the atom in the sequence, upper-casing maps      *)
(* every spelling of a token to its upper-case spelling.                   *)
(***************************************************************************)
EXTENDS Integers, Sequences, FiniteSets, TLC

(***************************************************************************)
(* Bounds of the model.                                                    *)
(***************************************************************************)
MaxCeiling == 3
MaxPassed == 4
MaxFailed == 2
MaxSummaries == 2
MaxRunPassed == 1
MaxRunFailed == 3
MaxChunks == 3
MaxFunctions == 3
MaxRefactorCeiling == 4
MaxLedger == 4

MaxNesting == 2

MaxLines == 3

MaxStdout == 2
MaxStderr == 1

MaxResponses == 3
MaxCalls == 4

(***************************************************************************)
(* Program constants.                                                      *)
(***************************************************************************)
ScopeDropTolerance == 2
TimeoutFailed == 999
TimeoutTotal == 999
TimeoutExitCode == -1
TimeoutSummary == "Test suite timeout"

VARIABLES
  max_iterations,   \* TestFixer.max_iterations
  fix_history,      \* TestFixer.fix_history, the attempt ledger
  queries_received, \* FakeClaudeService.queries_received, by kind of prompt
  pc,               \* position of the running call
  iteration,        \* fix_tests: iteration / argument current_iteration
  current_result,   \* fix_tests: current_result / argument current_result
  previous_result,  \* fix_tests: previous_result / argument previous_result
  should_stop,      \* first component of check_stopping_conditions' return
  reason,           \* second component of check_stopping_conditions' return
  should_continue,  \* first component of should_continue_fixing's return
  agent_reason,     \* second component of should_continue_fixing's return
  response_text,    \* should_continue_fixing: the concatenated answer
  result,           \* what the running call did: returned flag or raised error
  notice,           \* the closing console line of fix_tests
  fixes,            \* fix_tests: fixes, the return of apply_fixes
  last_run,         \* how the subprocess of the last run_tests call ended
  attempts,         \* RefactoringAgent.attempts, the attempt ledger
  classes,          \* refactor_file: the classes not yet handed to _refactor_class
  functions_to_extract, \* _refactor_class: functions_to_extract, the worklist
  func,             \* _refactor_class: func.name / argument func_name
  success,          \* _refactor_class: success
  failures,         \* _refactor_class: failures, the return of _get_failure_history
  current_source,   \* RefactoringAgent.current_source
  original_source,  \* RefactoringAgent.original_source
  head_attempts,    \* history: attempts made on the head of the worklist so far
  file,             \* the text of the file at file_path, None without a file
  written,          \* history: number of times the file was written
  args,             \* arguments of a function called on its own
  returned,         \* what that function returned
  mock_responses,   \* FakeClaudeService.mock_responses
  query_count,      \* FakeClaudeService.query_count
  response_index    \* FakeClaudeService.response_index

\* state of the test fixer only
fixer_only == <<fix_history, current_result, previous_result, should_stop, reason,
                should_continue, agent_reason, response_text, notice, fixes, last_run>>

\* state of the refactoring agent only
refactor_only == <<attempts, classes, functions_to_extract, func, success, failures,
                   current_source, original_source, head_attempts, file, written>>

\* state of a function called on its own
call_only == <<args, returned>>

\* state of the FakeClaudeService called on its own
service_only == <<mock_responses, query_count, response_index>>

vars == <<max_iterations, queries_received, pc, iteration, result,
          fixer_only, refactor_only, call_only, service_only>>

(***************************************************************************)
(* Optional values: None is the empty sequence, a present value v is <<v>>.*)
(***************************************************************************)
None == <<>>

Some(v) == <<v>>

IsNone(o) == Len(o) = 0

Get(o) == o[1]

RECURSIVE SeqsUpTo(_, _)
SeqsUpTo(S, n) ==
  IF n = 0 THEN {<<>>}
  ELSE LET shorter == SeqsUpTo(S, n - 1)
       IN shorter \cup {Append(s, x) : s \in {t \in shorter : Len(t) = n - 1}, x \in S}

(***************************************************************************)
(* TestResult (dataclass).  full_output is the captured text, a sequence   *)
(* of lines.                                                               *)
(***************************************************************************)
TestResult(p, f, t, fl, ec, out) ==
  [passed |-> p, failed |-> f, total |-> t, failures |-> fl,
   exit_code |-> ec, full_output |-> out]

\* variant: the comparison admits a zero count
has_failures_ge(r) == r.failed >= 0

has_failures(r) == r.failed > 0

is_worse_than(r, other) == r.failed > other.failed

(***************************************************************************)
(* check_stopping_conditions: the reasons it returns.  A reason is the     *)
(* message with the numbers its f-string interpolates.                     *)
(***************************************************************************)
Reason(k, a) == [kind |-> k, args |-> a]

MsgSuccess == "All tests passing!"

MsgSafety == "Safety limit: Maximum iterations reached"

MsgScope == "Safety: Test count decreased significantly"

MsgRegression == "Regression: failures increased"

MsgNoProgress == "No progress: failures haven't changed"

MsgContinue == ""

StopReturn(stop, r) == [should_stop |-> stop, reason |-> r]

\* variant: the count regression is examined before the scope regression
check_stopping_conditions_count_first(maxit, current_iteration, cur, prev) ==
  IF ~has_failures(cur)
    THEN StopReturn(TRUE, Reason(MsgSuccess, <<>>))
  ELSE IF current_iteration >= maxit
    THEN StopReturn(TRUE, Reason(MsgSafety, <<maxit>>))
  ELSE IF ~IsNone(prev) /\ cur.failed > Get(prev).failed
    THEN StopReturn(TRUE, Reason(MsgRegression, <<Get(prev).failed, cur.failed>>))
  ELSE IF ~IsNone(prev) /\ cur.total < Get(prev).total - ScopeDropTolerance
    THEN StopReturn(TRUE, Reason(MsgScope, <<Get(prev).total, cur.total>>))
  ELSE IF ~IsNone(prev) /\ cur.failures = Get(prev).failures
    THEN StopReturn(TRUE, Reason(MsgNoProgress, <<>>))
  ELSE StopReturn(FALSE, Reason(MsgContinue, <<>>))

\* variant: the ceiling is compared with > instead of >=
check_stopping_conditions_late_ceiling(maxit, current_iteration, cur, prev) ==
  IF ~has_failures(cur)
    THEN StopReturn(TRUE, Reason(MsgSuccess, <<>>))
  ELSE IF current_iteration > maxit
    THEN StopReturn(TRUE, Reason(MsgSafety, <<maxit>>))
  ELSE IF ~IsNone(prev) /\ cur.total < Get(prev).total - ScopeDropTolerance
    THEN StopReturn(TRUE, Reason(MsgScope, <<Get(prev).total, cur.total>>))
  ELSE IF ~IsNone(prev) /\ cur.failed > Get(prev).failed
    THEN StopReturn(TRUE, Reason(MsgRegression, <<Get(prev).failed, cur.failed>>))
  ELSE IF ~IsNone(prev) /\ cur.failures = Get(prev).failures
    THEN StopReturn(TRUE, Reason(MsgNoProgress, <<>>))
  ELSE StopReturn(FALSE, Reason(MsgContinue, <<>>))

\* variant: the scope comparison is <= instead of <
check_stopping_conditions_scope_le(maxit, current_iteration, cur, prev) ==
  IF ~has_failures(cur)
    THEN StopReturn(TRUE, Reason(MsgSuccess, <<>>))
  ELSE IF current_iteration >= maxit
    THEN StopReturn(TRUE, Reason(MsgSafety, <<maxit>>))
  ELSE IF ~IsNone(prev) /\ cur.total <= Get(prev).total - ScopeDropTolerance
    THEN StopReturn(TRUE, Reason(MsgScope, <<Get(prev).total, cur.total>>))
  ELSE IF ~IsNone(prev) /\ cur.failed > Get(prev).failed
    THEN StopReturn(TRUE, Reason(MsgRegression, <<Get(prev).failed, cur.failed>>))
  ELSE IF ~IsNone(prev) /\ cur.failures = Get(prev).failures
    THEN StopReturn(TRUE, Reason(MsgNoProgress, <<>>))
  ELSE StopReturn(FALSE, Reason(MsgContinue, <<>>))

\* variant: the count comparison is >= instead of >
check_stopping_conditions_count_ge(maxit, current_iteration, cur, prev) ==
  IF ~has_failures(cur)
    THEN StopReturn(TRUE, Reason(MsgSuccess, <<>>))
  ELSE IF current_iteration >= maxit
    THEN StopReturn(TRUE, Reason(MsgSafety, <<maxit>>))
  ELSE IF ~IsNone(prev) /\ cur.total < Get(prev).total - ScopeDropTolerance
    THEN StopReturn(TRUE, Reason(MsgScope, <<Get(prev).total, cur.total>>))
  ELSE IF ~IsNone(prev) /\ cur.failed >= Get(prev).failed
    THEN StopReturn(TRUE, Reason(MsgRegression, <<Get(prev).failed, cur.failed>>))
  ELSE IF ~IsNone(prev) /\ cur.failures = Get(prev).failures
    THEN StopReturn(TRUE, Reason(MsgNoProgress, <<>>))
  ELSE StopReturn(FALSE, Reason(MsgContinue, <<>>))

\* variant: the no-progress comparison is made before the regression checks
check_stopping_conditions_same_first(maxit, current_iteration, cur, prev) ==
  IF ~has_failures(cur)
    THEN StopReturn(TRUE, Reason(MsgSuccess, <<>>))
  ELSE IF current_iteration >= maxit
    THEN StopReturn(TRUE, Reason(MsgSafety, <<maxit>>))
  ELSE IF ~IsNone(prev) /\ cur.failures = Get(prev).failures
    THEN StopReturn(TRUE, Reason(MsgNoProgress, <<>>))
  ELSE IF ~IsNone(prev) /\ cur.total < Get(prev).total - ScopeDropTolerance
    THEN StopReturn(TRUE, Reason(MsgScope, <<Get(prev).total, cur.total>>))
  ELSE IF ~IsNone(prev) /\ cur.failed > Get(prev).failed
    THEN StopReturn(TRUE, Reason(MsgRegression, <<Get(prev).failed, cur.failed>>))
  ELSE StopReturn(FALSE, Reason(MsgContinue, <<>>))

\* variant: a missing previous result is compared as an empty summary list
check_stopping_conditions_none_as_empty(maxit, current_iteration, cur, prev) ==
  IF ~has_failures(cur)
    THEN StopReturn(TRUE, Reason(MsgSuccess, <<>>))
  ELSE IF current_iteration >= maxit
    THEN StopReturn(TRUE, Reason(MsgSafety, <<maxit>>))
  ELSE IF ~IsNone(prev) /\ cur.total < Get(prev).total - ScopeDropTolerance
    THEN StopReturn(TRUE, Reason(MsgScope, <<Get(prev).total, cur.total>>))
  ELSE IF ~IsNone(prev) /\ cur.failed > Get(prev).failed
    THEN StopReturn(TRUE, Reason(MsgRegression, <<Get(prev).failed, cur.failed>>))
  ELSE IF cur.failures = (IF IsNone(prev) THEN <<>> ELSE Get(prev).failures)
    THEN StopReturn(TRUE, Reason(MsgNoProgress, <<>>))
  ELSE StopReturn(FALSE, Reason(MsgContinue, <<>>))

\* variant: the no-progress comparison also requires equal failed counts
check_stopping_conditions_same_count(maxit, current_iteration, cur, prev) ==
  IF ~has_failures(cur)
    THEN StopReturn(TRUE, Reason(MsgSuccess, <<>>))
  ELSE IF current_iteration >= maxit
    THEN StopReturn(TRUE, Reason(MsgSafety, <<maxit>>))
  ELSE IF ~IsNone(prev) /\ cur.total < Get(prev).total - ScopeDropTolerance
    THEN StopReturn(TRUE, Reason(MsgScope, <<Get(prev).total, cur.total>>))
  ELSE IF ~IsNone(prev) /\ cur.failed > Get(prev).failed
    THEN StopReturn(TRUE, Reason(MsgRegression, <<Get(prev).failed, cur.failed>>))
  ELSE IF ~IsNone(prev) /\ cur.failures = Get(prev).failures
                        /\ cur.failed = Get(prev).failed
    THEN StopReturn(TRUE, Reason(MsgNoProgress, <<>>))
  ELSE StopReturn(FALSE, Reason(MsgContinue, <<>>))

check_stopping_conditions(maxit, current_iteration, cur, prev) ==
  IF ~has_failures(cur)
    THEN StopReturn(TRUE, Reason(MsgSuccess, <<>>))
  ELSE IF current_iteration >= maxit
    THEN StopReturn(TRUE, Reason(MsgSafety, <<maxit>>))
  ELSE IF ~IsNone(prev) /\ cur.total < Get(prev).total - ScopeDropTolerance
    THEN StopReturn(TRUE, Reason(MsgScope, <<Get(prev).total, cur.total>>))
  ELSE IF ~IsNone(prev) /\ cur.failed > Get(prev).failed
    THEN StopReturn(TRUE, Reason(MsgRegression, <<Get(prev).failed, cur.failed>>))
  ELSE IF ~IsNone(prev) /\ cur.failures = Get(prev).failures
    THEN StopReturn(TRUE, Reason(MsgNoProgress, <<>>))
  ELSE StopReturn(FALSE, Reason(MsgContinue, <<>>))

(***************************************************************************)
(* Text.  Atoms of the oracle's answers: the spellings of the two protocol *)
(* tokens, two words of free text and a blank.                             *)
(***************************************************************************)
TokContinue == "CONTINUE:"

TokStop == "STOP:"

ContinueSpellings == {"CONTINUE:", "Continue:", "continue:"}

StopSpellings == {"STOP:", "stop:"}

Blank == " "

WordModified == "Modified a.py"

WordOk == "ok"

Atoms == ContinueSpellings \cup StopSpellings \cup {WordOk, WordModified, Blank}

\* str.upper() on one atom
upper_atom(a) ==
  IF a \in ContinueSpellings THEN TokContinue
  ELSE IF a \in StopSpellings THEN TokStop
  ELSE IF a = WordOk THEN "OK"
  ELSE IF a = WordModified THEN "MODIFIED A.PY"
  ELSE a

\* str.upper()
upper(text) == [i \in 1..Len(text) |-> upper_atom(text[i])]

\* tok in text
contains(text, tok) == \E i \in 1..Len(text) : text[i] = tok

\* ":" in text
has_colon(text) == \E i \in 1..Len(text) : text[i] \in ContinueSpellings \cup StopSpellings

\* position of the first occurrence of tok in text (text contains tok)
first_index(text, tok) == CHOOSE i \in 1..Len(text) :
  text[i] = tok /\ \A j \in 1..(i - 1) : text[j] # tok

\* len(text.split(tok, 1)): one piece when tok does not occur, else two
split_pieces(text, tok) == IF contains(text, tok) THEN 2 ELSE 1

\* text.split(tok, 1)[1] (text contains tok)
split_tail(text, tok) == SubSeq(text, first_index(text, tok) + 1, Len(text))

\* str.strip()
RECURSIVE strip(_)
strip(text) ==
  IF Len(text) = 0 THEN text
  ELSE IF Head(text) = Blank THEN strip(Tail(text))
  ELSE IF text[Len(text)] = Blank THEN strip(SubSeq(text, 1, Len(text) - 1))
  ELSE text

(***************************************************************************)
(* Response chunks of the oracle: a chunk exposes a content payload or     *)
(* does not.                                                               *)
(***************************************************************************)
Chunks == {[has_content |-> TRUE, content |-> a] : a \in Atoms}
            \cup {[has_content |-> FALSE, content |-> ""]}

\* the loop  async for message in receive_response(): response_text += ...
RECURSIVE concat_contents(_)
concat_contents(chunks) ==
  IF Len(chunks) = 0 THEN <<>>
  ELSE IF Head(chunks).has_content
    THEN <<Head(chunks).content>> \o concat_contents(Tail(chunks))
  ELSE concat_contents(Tail(chunks))

\* FakeClaudeService.receive_response: the next configured response if one
\* is left, nothing otherwise
FakeReplies == {<<>>} \cup {<<c>> : c \in Chunks}

(***************************************************************************)
(* should_continue_fixing                                                  *)
(***************************************************************************)
MsgAllPassing == "All tests passing!"

MsgFirstAttempt == "First attempt - continuing"

MsgAgent == "Agent: "

MsgUnclear == "Agent response unclear - stopping as safety measure"

AgentReason(k, t) == [kind |-> k, text |-> t]

NoAgentReason == AgentReason("", <<>>)

AskReturn(raised, asked, cont, r, text) ==
  [raised |-> raised, asked |-> asked, should_continue |-> cont,
   agent_reason |-> r, response_text |-> text]

\* the branch of one token: the reason is the answer after the token
token_branch(text, tok, cont, fallback) ==
  IF ~has_colon(text)
    THEN AskReturn(FALSE, TRUE, cont, AgentReason(MsgAgent, <<fallback>>), text)
  ELSE IF split_pieces(text, tok) < 2
    THEN AskReturn(TRUE, TRUE, FALSE, NoAgentReason, text)
  ELSE AskReturn(FALSE, TRUE, cont, AgentReason(MsgAgent, strip(split_tail(text, tok))), text)

\* variant: an answer without a token is taken as a decision to continue
should_continue_fixing_fail_open(history, cur, chunks) ==
  IF ~has_failures(cur)
    THEN AskReturn(FALSE, FALSE, FALSE, AgentReason(MsgAllPassing, <<>>), <<>>)
  ELSE IF Len(history) = 0
    THEN AskReturn(FALSE, FALSE, TRUE, AgentReason(MsgFirstAttempt, <<>>), <<>>)
  ELSE LET text == concat_contents(chunks)
           response_upper == upper(text)
       IN IF contains(response_upper, TokContinue)
            THEN token_branch(text, TokContinue, TRUE, "Agent decided to continue")
          ELSE IF contains(response_upper, TokStop)
            THEN token_branch(text, TokStop, FALSE, "Agent decided to stop")
          ELSE AskReturn(FALSE, TRUE, TRUE, AgentReason(MsgUnclear, <<>>), text)

should_continue_fixing(history, cur, chunks) ==
  IF ~has_failures(cur)
    THEN AskReturn(FALSE, FALSE, FALSE, AgentReason(MsgAllPassing, <<>>), <<>>)
  ELSE IF Len(history) = 0
    THEN AskReturn(FALSE, FALSE, TRUE, AgentReason(MsgFirstAttempt, <<>>), <<>>)
  ELSE LET text == concat_contents(chunks)
           response_upper == upper(text)
       IN IF contains(response_upper, TokContinue)
            THEN token_branch(text, TokContinue, TRUE, "Agent decided to continue")
          ELSE IF contains(response_upper, TokStop)
            THEN token_branch(text, TokStop, FALSE, "Agent decided to stop")
          ELSE AskReturn(FALSE, TRUE, FALSE, AgentReason(MsgUnclear, <<>>), text)

(***************************************************************************)
(* apply_fixes: the files named after Modified/Updated/Fixed in the        *)
(* chunks, without duplicates.                                             *)
(***************************************************************************)
files_in(a) == IF a = WordModified THEN {"a.py"} ELSE {}

apply_fixes(chunks) ==
  UNION {files_in(chunks[i].content) : i \in {j \in 1..Len(chunks) : chunks[j].has_content}}

FixAttempt(i, r, applied) == [iteration |-> i, test_result |-> r, fixes_applied |-> applied]

(***************************************************************************)
(* run_tests.  The captured output is a sequence of lines; a line carries  *)
(* at most one PASSED and at most one FAILED marker.                       *)
(***************************************************************************)
LinePassed == "t.py::p PASSED"

\* a failure line of the form <file>::<test> FAILED - <error>
LineFailedDetail == "t.py::a FAILED - E"

\* a failure line without the " - <error>" part
LineFailedBare == "t.py::b FAILED"

LineAssertion == "AssertionError: E"

LineOther == "collected"

\* a failure line of a test whose name holds the other marker
LineMarkers == "t.py::test_PASSED FAILED - F"

\* an error line of another kind than AssertionError
LineValueError == "ValueError: E"

\* the summary line, in lower case
LineLower == "1 failed, 1 passed"

Lines ==
  {LinePassed, LineFailedDetail, LineFailedBare, LineAssertion, LineOther,
   LineMarkers, LineValueError, LineLower}

\* re.findall(r"PASSED", line), re.findall(r"FAILED", line): number of matches
passed_in(line) == IF line \in {LinePassed, LineMarkers} THEN 1 ELSE 0

failed_in(line) == IF line \in {LineFailedDetail, LineFailedBare, LineMarkers} THEN 1 ELSE 0

\* failed_pattern on a line: f"{test_name}: {error}" of its match
failed_match(line) ==
  CASE line = LineFailedDetail -> Some("t.py::a: E")
    [] line = LineMarkers -> Some("t.py::test_PASSED: F")
    [] OTHER -> None

\* assertion_pattern on a line: group(1) of its match
assertion_match(line) == IF line = LineAssertion THEN Some(LineAssertion) ELSE None

RECURSIVE count_passed(_)
count_passed(output) ==
  IF output = <<>> THEN 0 ELSE passed_in(Head(output)) + count_passed(Tail(output))

RECURSIVE count_failed(_)
count_failed(output) ==
  IF output = <<>> THEN 0 ELSE failed_in(Head(output)) + count_failed(Tail(output))

\* the matches of failed_pattern, as f"{test_name}: {error}"
RECURSIVE structured_failures(_)
structured_failures(output) ==
  IF output = <<>> THEN <<>>
  ELSE failed_match(Head(output)) \o structured_failures(Tail(output))

\* the matches of assertion_pattern
RECURSIVE assertion_failures(_)
assertion_failures(output) ==
  IF output = <<>> THEN <<>>
  ELSE assertion_match(Head(output)) \o assertion_failures(Tail(output))

extract_failures(output) ==
  IF structured_failures(output) # <<>> THEN structured_failures(output)
  ELSE assertion_failures(output)

\* how subprocess.run ends
Completed(rc, out, err) ==
  [kind |-> "completed", returncode |-> rc, stdout |-> out, stderr |-> err]

TimeoutExpired == [kind |-> "TimeoutExpired"]

FileNotFound == [kind |-> "FileNotFoundError"]

RunReturn(e, v) == [raised |-> e, value |-> v]

\* the sentinel run_tests returns on subprocess.TimeoutExpired
TimeoutResult ==
  TestResult(0, TimeoutFailed, TimeoutTotal, <<TimeoutSummary>>, TimeoutExitCode, <<>>)

\* variant: only the primary stream is read
run_tests_stdout_only(ended) ==
  IF ended.kind = "completed"
    THEN LET output == ended.stdout
         IN RunReturn("", Some(TestResult(count_passed(output), count_failed(output),
                                          count_passed(output) + count_failed(output),
                                          extract_failures(output), ended.returncode,
                                          output)))
  ELSE IF ended.kind = "TimeoutExpired"
    THEN RunReturn("", Some(TimeoutResult))
  ELSE RunReturn("FileNotFoundError", None)

\* variant: a timeout is reported as a run without failures
run_tests_timeout_clean(ended) ==
  IF ended.kind = "completed"
    THEN LET output == ended.stdout \o ended.stderr
         IN RunReturn("", Some(TestResult(count_passed(output), count_failed(output),
                                          count_passed(output) + count_failed(output),
                                          extract_failures(output), ended.returncode,
                                          output)))
  ELSE IF ended.kind = "TimeoutExpired"
    THEN RunReturn("", Some(TestResult(0, 0, 0, <<TimeoutSummary>>, TimeoutExitCode, <<>>)))
  ELSE RunReturn("FileNotFoundError", None)

run_tests(ended) ==
  IF ended.kind = "completed"
    THEN LET output == ended.stdout \o ended.stderr
         IN RunReturn("", Some(TestResult(count_passed(output), count_failed(output),
                                          count_passed(output) + count_failed(output),
                                          extract_failures(output), ended.returncode,
                                          output)))
  ELSE IF ended.kind = "TimeoutExpired"
    THEN RunReturn("", Some(TimeoutResult))
  ELSE RunReturn("FileNotFoundError", None)

(***************************************************************************)
(* Inputs.                                                                 *)
(***************************************************************************)
SummaryNames == {"t.py::a: E", "t.py::b: E"}

\* results a caller hands to check_stopping_conditions or should_continue_fixing
EvalResults ==
  {TestResult(p, f, p + f, fl, IF f = 0 THEN 0 ELSE 1, <<>>) :
     p \in 0..MaxPassed, f \in 0..MaxFailed, fl \in SeqsUpTo(SummaryNames, MaxSummaries)}
  \cup {TimeoutResult}

Repeat(line, n) == [i \in 1..n |-> line]

\* how many failure lines of a run carry an error part: none, or the first
DetailedLines == {0, 1}

\* what the verification command prints in a session: PASSED lines, then the
\* failure lines, those with an error part first; it exits with 0 exactly
\* when it prints no failure line
RunOutputs ==
  {Repeat(LinePassed, c[1]) \o Repeat(LineFailedDetail, c[3])
     \o Repeat(LineFailedBare, c[2] - c[3]) :
     c \in {t \in (0..MaxRunPassed) \X (0..MaxRunFailed) \X DetailedLines : t[3] <= t[2]}}

\* the ways a run of a session ends without raising
RunsEnded ==
  {Completed(IF count_failed(out) = 0 THEN 0 ELSE 1, out, <<>>) : out \in RunOutputs}
  \cup {TimeoutExpired}

\* results handed to should_continue_fixing when it is called on its own
AskResults ==
  {TestResult(0, f, f, <<>>, IF f = 0 THEN 0 ELSE 1, <<>>) : f \in 0..MaxFailed}
  \cup {TimeoutResult}

\* ceilings given to the constructor: none is rejected, -1 and 0 included
Ceilings == -1..MaxCeiling

(***************************************************************************)
(* The state after TestFixer.__init__ and at the head of fix_tests' loop.  *)
(***************************************************************************)
NoReason == Reason("", <<>>)

Fresh ==
  /\ fix_history = <<>>
  /\ queries_received = <<>>
  /\ should_stop = FALSE
  /\ reason = NoReason
  /\ should_continue = FALSE
  /\ agent_reason = NoAgentReason
  /\ response_text = <<>>
  /\ result = "none"
  /\ notice = ""
  /\ fixes = {}
  /\ last_run = "none"

\* no RefactoringAgent is at work
NoRefactoring ==
  /\ attempts = <<>>
  /\ classes = <<>>
  /\ functions_to_extract = <<>>
  /\ func = ""
  /\ success = FALSE
  /\ failures = <<>>
  /\ current_source = ""
  /\ original_source = ""
  /\ head_attempts = 0
  /\ file = None
  /\ written = 0

\* no function is called on its own
NoCall ==
  /\ args = <<>>
  /\ returned = <<>>

\* no FakeClaudeService is called on its own
NoService ==
  /\ mock_responses = <<>>
  /\ query_count = 0
  /\ response_index = 0

Init ==
  /\ max_iterations \in Ceilings
  /\ pc = "loop"
  /\ iteration = 0
  /\ current_result = None
  /\ previous_result = None
  /\ Fresh
  /\ NoRefactoring
  /\ NoCall
  /\ NoService

(***************************************************************************)
(* fix_tests                                                               *)
(***************************************************************************)
\* while iteration < max_iterations: iteration += 1; run_tests returns
RunTests ==
  /\ pc = "loop"
  /\ iteration < max_iterations
  /\ iteration' = iteration + 1
  /\ \E ended \in RunsEnded :
       /\ current_result' = run_tests(ended).value
       /\ last_run' = ended.kind
  /\ pc' = "check"
  /\ UNCHANGED <<max_iterations, fix_history, queries_received, previous_result,
                 should_stop, reason, should_continue, agent_reason,
                 response_text, result, notice, fixes>>
  /\ UNCHANGED refactor_only
  /\ UNCHANGED call_only
  /\ UNCHANGED service_only

\* variant: the missing command is reported and the run is tried again
RunTestsNotFound_retried ==
  /\ pc = "loop"
  /\ iteration < max_iterations
  /\ iteration' = iteration + 1
  /\ last_run' = FileNotFound.kind
  /\ UNCHANGED <<max_iterations, fix_history, queries_received, current_result,
                 previous_result, should_stop, reason, should_continue,
                 agent_reason, response_text, notice, fixes, pc, result>>
  /\ UNCHANGED refactor_only
  /\ UNCHANGED call_only
  /\ UNCHANGED service_only

\* run_tests re-raises FileNotFoundError, which fix_tests does not catch
RunTestsNotFound ==
  /\ pc = "loop"
  /\ iteration < max_iterations
  /\ iteration' = iteration + 1
  /\ result' = run_tests(FileNotFound).raised
  /\ last_run' = FileNotFound.kind
  /\ pc' = "done"
  /\ UNCHANGED <<max_iterations, fix_history, queries_received, current_result,
                 previous_result, should_stop, reason, should_continue,
                 agent_reason, response_text, notice, fixes>>
  /\ UNCHANGED refactor_only
  /\ UNCHANGED call_only
  /\ UNCHANGED service_only

\* the while condition fails: "Safety limit reached", return False
LoopExhausted ==
  /\ pc = "loop"
  /\ ~(iteration < max_iterations)
  /\ result' = "False"
  /\ notice' = "Safety limit reached"
  /\ pc' = "done"
  /\ UNCHANGED <<max_iterations, fix_history, queries_received, iteration,
                 current_result, previous_result, should_stop, reason,
                 should_continue, agent_reason, response_text>>
  /\ UNCHANGED <<fixes, last_run>>
  /\ UNCHANGED refactor_only
  /\ UNCHANGED call_only
  /\ UNCHANGED service_only

\* should_stop, reason = self.check_stopping_conditions(iteration, ...)
CheckStop ==
  /\ pc = "check"
  /\ LET ret == check_stopping_conditions(max_iterations, iteration,
                                          Get(current_result), previous_result)
     IN /\ should_stop' = ret.should_stop
        /\ reason' = ret.reason
  /\ pc' = "checked"
  /\ UNCHANGED <<max_iterations, fix_history, queries_received, iteration,
                 current_result, previous_result, should_continue,
                 agent_reason, response_text, result, notice>>
  /\ UNCHANGED <<fixes, last_run>>
  /\ UNCHANGED refactor_only
  /\ UNCHANGED call_only
  /\ UNCHANGED service_only

\* variant: a stop always reports success
return_flag_true(cur) == "True"

\* return not current_result.has_failures()
return_flag(cur) == IF ~has_failures(cur) THEN "True" ELSE "False"

\* if should_stop: print the reason and return the flag
StopOrGoOn ==
  /\ pc = "checked"
  /\ IF should_stop
       THEN /\ notice' = reason.kind
            /\ result' = return_flag(Get(current_result))
            /\ pc' = "done"
       ELSE /\ pc' = "analyze"
            /\ UNCHANGED <<notice, result>>
  /\ UNCHANGED <<max_iterations, fix_history, queries_received, iteration,
                 current_result, previous_result, should_stop, reason,
                 should_continue, agent_reason, response_text>>
  /\ UNCHANGED <<fixes, last_run>>
  /\ UNCHANGED refactor_only
  /\ UNCHANGED call_only
  /\ UNCHANGED service_only

\* analyze_failures_with_claude: one query, the answer is returned as text
AnalyzeFailures ==
  /\ pc = "analyze"
  /\ queries_received' = Append(queries_received, "analyze")
  /\ pc' = "apply"
  /\ UNCHANGED <<max_iterations, fix_history, iteration, current_result,
                 previous_result, should_stop, reason, should_continue,
                 agent_reason, response_text, result, notice>>
  /\ UNCHANGED <<fixes, last_run>>
  /\ UNCHANGED refactor_only
  /\ UNCHANGED call_only
  /\ UNCHANGED service_only

\* fixes = await self.apply_fixes(...): one query, the files are collected
ApplyFixes ==
  /\ pc = "apply"
  /\ queries_received' = Append(queries_received, "apply")
  /\ \E reply \in FakeReplies : fixes' = apply_fixes(reply)
  /\ pc' = "record"
  /\ UNCHANGED <<max_iterations, fix_history, iteration, current_result,
                 previous_result, should_stop, reason, should_continue,
                 agent_reason, response_text, result, notice, last_run>>
  /\ UNCHANGED refactor_only
  /\ UNCHANGED call_only
  /\ UNCHANGED service_only

\* variant: the attempt is not appended to the ledger
RecordAttempt_skipped ==
  /\ pc = "record"
  /\ pc' = "ask"
  /\ UNCHANGED <<max_iterations, queries_received, iteration, current_result,
                 previous_result, should_stop, reason, should_continue,
                 agent_reason, response_text, result, notice, fixes, last_run,
                 fix_history>>
  /\ UNCHANGED refactor_only
  /\ UNCHANGED call_only
  /\ UNCHANGED service_only

\* self.fix_history.append(FixAttempt(iteration, current_result, fixes))
RecordAttempt ==
  /\ pc = "record"
  /\ fix_history' = Append(fix_history, FixAttempt(iteration, Get(current_result), fixes))
  /\ pc' = "ask"
  /\ UNCHANGED <<max_iterations, queries_received, iteration, current_result,
                 previous_result, should_stop, reason, should_continue,
                 agent_reason, response_text, result, notice, fixes, last_run>>
  /\ UNCHANGED refactor_only
  /\ UNCHANGED call_only
  /\ UNCHANGED service_only

\* variant: the result kept for the next iteration is the one with the fewest
\* failures so far
AskContinue_best_kept ==
  /\ pc = "ask"
  /\ \E reply \in FakeReplies :
       LET ret == should_continue_fixing(fix_history, Get(current_result), reply)
       IN /\ queries_received' = IF ret.asked THEN Append(queries_received, "continue")
                                 ELSE queries_received
          /\ response_text' = ret.response_text
          /\ IF ret.raised
               THEN /\ result' = "IndexError"
                    /\ pc' = "done"
                    /\ UNCHANGED <<should_continue, agent_reason, notice, previous_result>>
             ELSE /\ should_continue' = ret.should_continue
                  /\ agent_reason' = ret.agent_reason
                  /\ IF ~ret.should_continue
                       THEN /\ notice' = ret.agent_reason.kind
                            /\ result' = "False"
                            /\ pc' = "done"
                            /\ UNCHANGED previous_result
                       ELSE /\ previous_result' =
                                 IF IsNone(previous_result)
                                      \/ Get(current_result).failed < Get(previous_result).failed
                                   THEN current_result ELSE previous_result
                            /\ pc' = "loop"
                            /\ UNCHANGED <<notice, result>>
  /\ UNCHANGED <<max_iterations, fix_history, iteration, current_result,
                 should_stop, reason>>
  /\ UNCHANGED <<fixes, last_run>>
  /\ UNCHANGED refactor_only
  /\ UNCHANGED call_only
  /\ UNCHANGED service_only

\* should_continue_fixing and the branch on should_continue
AskContinue ==
  /\ pc = "ask"
  /\ \E reply \in FakeReplies :
       LET ret == should_continue_fixing(fix_history, Get(current_result), reply)
       IN /\ queries_received' = IF ret.asked THEN Append(queries_received, "continue")
                                 ELSE queries_received
          /\ response_text' = ret.response_text
          /\ IF ret.raised
               THEN /\ result' = "IndexError"
                    /\ pc' = "done"
                    /\ UNCHANGED <<should_continue, agent_reason, notice, previous_result>>
             ELSE /\ should_continue' = ret.should_continue
                  /\ agent_reason' = ret.agent_reason
                  /\ IF ~ret.should_continue
                       THEN /\ notice' = ret.agent_reason.kind
                            /\ result' = "False"
                            /\ pc' = "done"
                            /\ UNCHANGED previous_result
                       ELSE /\ previous_result' = current_result
                            /\ pc' = "loop"
                            /\ UNCHANGED <<notice, result>>
  /\ UNCHANGED <<max_iterations, fix_history, iteration, current_result,
                 should_stop, reason>>
  /\ UNCHANGED <<fixes, last_run>>
  /\ UNCHANGED refactor_only
  /\ UNCHANGED call_only
  /\ UNCHANGED service_only

\* variant: the interruption is reported and the loop goes on
Interrupt_resumed ==
  /\ pc \in {"loop", "check", "checked", "analyze", "apply", "record", "ask"}
  /\ notice # "Interrupted by user"
  /\ notice' = "Interrupted by user"
  /\ UNCHANGED <<max_iterations, fix_history, queries_received, iteration,
                 current_result, previous_result, should_stop, reason,
                 should_continue, agent_reason, response_text, pc, result>>
  /\ UNCHANGED <<fixes, last_run>>
  /\ UNCHANGED refactor_only
  /\ UNCHANGED call_only
  /\ UNCHANGED service_only

\* except KeyboardInterrupt: return False
Interrupt ==
  /\ pc \in {"loop", "check", "checked", "analyze", "apply", "record", "ask"}
  /\ result' = "False"
  /\ notice' = "Interrupted by user"
  /\ pc' = "done"
  /\ UNCHANGED <<max_iterations, fix_history, queries_received, iteration,
                 current_result, previous_result, should_stop, reason,
                 should_continue, agent_reason, response_text>>
  /\ UNCHANGED <<fixes, last_run>>
  /\ UNCHANGED refactor_only
  /\ UNCHANGED call_only
  /\ UNCHANGED service_only

Next ==
  \/ RunTests
  \/ RunTestsNotFound
  \/ LoopExhausted
  \/ CheckStop
  \/ StopOrGoOn
  \/ AnalyzeFailures
  \/ ApplyFixes
  \/ RecordAttempt
  \/ AskContinue
  \/ Interrupt

Spec == Init /\ [][Next]_vars

(***************************************************************************)
(* check_stopping_conditions called on its own, as the unit tests do: the  *)
(* arguments are drawn by the caller.                                      *)
(***************************************************************************)
\* ceilings of the evaluator's callers
EvalCeilings == 0..MaxCeiling

InitEval ==
  /\ max_iterations \in EvalCeilings
  /\ pc = "eval_call"
  /\ iteration \in 1..MaxCeiling
  /\ current_result \in {Some(r) : r \in EvalResults}
  /\ previous_result \in {None} \cup {Some(r) : r \in EvalResults}
  /\ Fresh
  /\ NoRefactoring
  /\ NoCall
  /\ NoService

CheckStoppingConditions ==
  /\ pc = "eval_call"
  /\ LET ret == check_stopping_conditions(max_iterations, iteration,
                                          Get(current_result), previous_result)
     IN /\ should_stop' = ret.should_stop
        /\ reason' = ret.reason
  /\ result' = "returned"
  /\ pc' = "eval_return"
  /\ UNCHANGED <<max_iterations, fix_history, queries_received, iteration,
                 current_result, previous_result, should_continue,
                 agent_reason, response_text, notice>>
  /\ UNCHANGED <<fixes, last_run>>
  /\ UNCHANGED refactor_only
  /\ UNCHANGED call_only
  /\ UNCHANGED service_only

NextEval == CheckStoppingConditions

SpecEval == InitEval /\ [][NextEval]_vars

(***************************************************************************)
(* should_continue_fixing called on its own, with an empty or a non-empty  *)
(* ledger, against an oracle that answers with any sequence of chunks.     *)
(***************************************************************************)
InitAsk ==
  /\ max_iterations = MaxCeiling
  /\ pc = "ask_call"
  /\ iteration = 1
  /\ current_result \in {Some(r) : r \in AskResults}
  /\ previous_result = None
  /\ fix_history \in {<<>>, <<FixAttempt(1, Get(current_result), {})>>}
  /\ queries_received = <<>>
  /\ should_stop = FALSE
  /\ reason = NoReason
  /\ should_continue = FALSE
  /\ agent_reason = NoAgentReason
  /\ response_text = <<>>
  /\ result = "none"
  /\ notice = ""
  /\ fixes = {}
  /\ last_run = "none"
  /\ NoRefactoring
  /\ NoCall
  /\ NoService

ShouldContinueFixing ==
  /\ pc = "ask_call"
  /\ \E chunks \in SeqsUpTo(Chunks, MaxChunks) :
       LET ret == should_continue_fixing(fix_history, Get(current_result), chunks)
       IN /\ queries_received' = IF ret.asked THEN Append(queries_received, "continue")
                                 ELSE queries_received
          /\ response_text' = ret.response_text
          /\ IF ret.raised
               THEN /\ result' = "IndexError"
                    /\ UNCHANGED <<should_continue, agent_reason>>
               ELSE /\ result' = "returned"
                    /\ should_continue' = ret.should_continue
                    /\ agent_reason' = ret.agent_reason
  /\ pc' = "ask_return"
  /\ UNCHANGED <<max_iterations, fix_history, iteration, current_result,
                 previous_result, should_stop, reason, notice>>
  /\ UNCHANGED <<fixes, last_run>>
  /\ UNCHANGED refactor_only
  /\ UNCHANGED call_only
  /\ UNCHANGED service_only

NextAsk == ShouldContinueFixing

SpecAsk == InitAsk /\ [][NextAsk]_vars

(***************************************************************************)
(* RefactoringAgent (src/src/refactoring_agent.py).  A class is the list   *)
(* of the names of its functions, in the order of the class body.  A       *)
(* source text is one of three: the file as read, a candidate that passes  *)
(* the five validation hooks for the target asked, and a candidate whose   *)
(* service class reads the environment.                                    *)
(***************************************************************************)
RetryBudget == 3

AllFunctions == <<"__init__", "run", "f", "g">>

\* the classes of the file: the first n functions of AllFunctions
ClassShapes == {SubSeq(AllFunctions, 1, n) : n \in 0..MaxFunctions}

\* a file without a class, with one class, with two classes
ClassLists ==
  {<<>>} \cup {<<c>> : c \in ClassShapes} \cup {<<c, d>> : c \in ClassShapes, d \in ClassShapes}

RefactorCeilings == 0..MaxRefactorCeiling

SourceAsRead == "class Original"

CodeValid == "class Original with service"

CodeEnvAccess == "class Original with service reading os.getenv"

Codes == {CodeValid, CodeEnvAccess}

\* f"{func.name.title()}Service"
service_class_name(name) ==
  CASE name = "__init__" -> "__Init__Service"
    [] name = "run" -> "RunService"
    [] name = "f" -> "FService"
    [] name = "g" -> "GService"

RefactoringAttempt(i, target, service, ok, errors) ==
  [iteration |-> i, target_function |-> target, service_class_name |-> service,
   success |-> ok, validation_errors |-> errors, changes_made |-> <<>>]

\* variant: the sequence number is the length of the ledger before the append
record_attempt_from_zero(ledger, func_name, service, ok, errors) ==
  Append(ledger, RefactoringAttempt(Len(ledger), func_name, service, ok, errors))

\* _record_attempt
record_attempt(ledger, func_name, service, ok, errors) ==
  Append(ledger, RefactoringAttempt(Len(ledger) + 1, func_name, service, ok, errors))

\* variant: the successful attempts for the function are returned as well
get_failure_history_any_outcome(ledger, func_name) ==
  SelectSeq(ledger, LAMBDA attempt : attempt.target_function = func_name)

\* _get_failure_history
get_failure_history(ledger, func_name) ==
  SelectSeq(ledger, LAMBDA attempt : attempt.target_function = func_name /\ ~attempt.success)

(***************************************************************************)
(* The oracle's messages to the refactoring agent.  The content of a text  *)
(* message is a sequence of atoms: a code, alone or inside a markdown      *)
(* fence for python (three backquotes and the word python, closed by       *)
(* three backquotes), possibly after a word of prose.                      *)
(***************************************************************************)
FenceOpen == "[fence python]"

FenceClose == "[fence]"

TextMessage(c) == [type |-> "text", content |-> c]

OtherMessage == [type |-> "tool_use", content |-> <<>>]

Contents ==
  {<<>>, <<WordOk>>}
  \cup {<<c>> : c \in Codes}
  \cup {<<FenceOpen, c, FenceClose>> : c \in Codes}
  \cup {<<WordOk, FenceOpen, c, FenceClose>> : c \in Codes}

\* FakeClaudeService.receive_response yields at most one message per query
RefactorReplies ==
  {<<>>, <<OtherMessage>>} \cup {<<TextMessage(c)>> : c \in Contents}

\* content[start:end].strip() resp. content.strip(): the code the content holds
code_in(content) ==
  IF contains(content, FenceOpen)
    THEN LET start == first_index(content, FenceOpen) + 1
         IN IF content[start] \in Codes THEN content[start] ELSE ""
  ELSE IF content # <<>> /\ content[1] \in Codes THEN content[1]
  ELSE ""

\* _execute_refactoring: the code of the last text message, None without one
RECURSIVE last_code(_, _)
last_code(reply, refactored_code) ==
  IF reply = <<>> THEN refactored_code
  ELSE last_code(Tail(reply),
                 IF Head(reply).type = "text" THEN code_in(Head(reply).content)
                 ELSE refactored_code)

execute_refactoring(reply) ==
  LET refactored_code == last_code(reply, "")
  IN IF refactored_code # "" THEN Some(refactored_code) ELSE None

ValidationResult(ok, errors) == [passed |-> ok, errors |-> errors]

(***************************************************************************)
(* Syntax trees (module ast).  A node has a type, a name (the id of a      *)
(* Name, the attr of an Attribute, the name of a FunctionDef or ClassDef)  *)
(* and its child nodes in source order: the value of an Attribute, the     *)
(* func of a Call, the target and the value of an Assign, the body of the  *)
(* others.  A parsed text is the Module node, None when ast.parse raises   *)
(* SyntaxError.                                                            *)
(***************************************************************************)
Node(type, name, children) == [type |-> type, name |-> name, children |-> children]

Name(id) == Node("Name", id, <<>>)

Attribute(value, attr) == Node("Attribute", attr, <<value>>)

Call(function) == Node("Call", "", <<function>>)

BinOp(left, right) == Node("BinOp", "", <<left, right>>)

Lambda(body) == Node("Lambda", "", <<body>>)

ListComp(elt) == Node("ListComp", "", <<elt>>)

Return(value) == Node("Return", "", <<value>>)

Expr(value) == Node("Expr", "", <<value>>)

Assign(target, value) == Node("Assign", "", <<target, value>>)

FunctionDef(name, body) == Node("FunctionDef", name, body)

ClassDef(name, body) == Node("ClassDef", name, body)

Module(body) == Node("Module", "", body)

\* ast.walk: the node and all its descendants
RECURSIVE walk(_)
walk(node) == {node} \cup UNION {walk(node.children[i]) : i \in 1..Len(node.children)}

\* isinstance(node, ast.Name) and node.id == id
is_name(node, id) == node.type = "Name" /\ node.name = id

\* variant: only the statements of the function body are inspected
check_env_access_shallow(func_node) ==
  \E i \in 1..Len(func_node.children) :
    \E j \in 1..Len(func_node.children[i].children) :
      LET node == func_node.children[i].children[j]
      IN \/ node.type = "Attribute" /\ is_name(node.children[1], "os") /\ node.name = "environ"
         \/ /\ node.type = "Call"
            /\ node.children[1].type = "Attribute"
            /\ is_name(node.children[1].children[1], "os")
            /\ node.children[1].name \in {"getenv", "getenvb"}

\* RefactoringAgent._check_env_access
check_env_access(func_node) ==
  \E node \in walk(func_node) :
    \/ node.type = "Attribute" /\ is_name(node.children[1], "os") /\ node.name = "environ"
    \/ /\ node.type = "Call"
       /\ \/ /\ node.children[1].type = "Attribute"
             /\ is_name(node.children[1].children[1], "os")
             /\ node.children[1].name \in {"getenv", "getenvb"}
          \/ /\ node.children[1].type = "Name"
             /\ node.children[1].name \in {"load_dotenv", "dotenv_values"}

\* RefactorAgentWithHooks._check_env_access
hooks_check_env_access(node) ==
  \E child \in walk(node) :
    /\ child.type = "Attribute"
    /\ is_name(child.children[1], "os")
    /\ child.name \in {"environ", "getenv"}

(***************************************************************************)
(* The five validation hooks of RefactoringAgent on the parsed current     *)
(* source.  The classes of a text are those of the module body.            *)
(***************************************************************************)
\* the class names of the model that contain the word Service
ServiceNamed == {"FService", "GService", "RunService", "__Init__Service", "UserService"}

\* "Service" in name
mentions_service(name) == name \in ServiceNamed

\* the items of the class bodies, class after class
RECURSIVE bodies(_)
bodies(class_nodes) ==
  IF class_nodes = <<>> THEN <<>>
  ELSE Head(class_nodes).children \o bodies(Tail(class_nodes))

\* _validate_service_class_created
validate_service_class_created(parsed, service) ==
  /\ ~IsNone(parsed)
  /\ \E node \in walk(Get(parsed)) : node.type = "ClassDef" /\ node.name = service

\* _validate_function_removed: the first function of that name in a class
\* whose name does not contain Service decides
validate_function_removed(parsed, func_name) ==
  IF IsNone(parsed) THEN TRUE
  ELSE LET originals == SelectSeq(Get(parsed).children,
                                  LAMBDA n : n.type = "ClassDef" /\ ~mentions_service(n.name))
           found == SelectSeq(bodies(originals),
                              LAMBDA item : item.type = "FunctionDef" /\ item.name = func_name)
       IN IF found = <<>> THEN TRUE
          ELSE Len(Head(found).children) = 1 /\ Head(found).children[1].type = "Return"

\* _validate_no_env_access
validate_no_env_access(parsed, service) ==
  IF IsNone(parsed) THEN TRUE
  ELSE ~\E node \in walk(Get(parsed)) :
          /\ node.type = "ClassDef" /\ node.name = service
          /\ \E i \in 1..Len(node.children) :
               /\ node.children[i].type = "FunctionDef"
               /\ check_env_access(node.children[i])

\* _validate_interface_usage
validate_interface_usage(parsed, service) ==
  IF IsNone(parsed) THEN TRUE
  ELSE ~\E node \in walk(Get(parsed)) :
          /\ node.type = "ClassDef" /\ node.name = service
          /\ \E i \in 1..Len(node.children) :
               /\ node.children[i].type = "FunctionDef"
               /\ node.children[i].name = "__init__"
               /\ \E stmt \in walk(node.children[i]) :
                    \/ /\ stmt.type = "Assign"
                       /\ stmt.children[1].type = "Attribute"
                       /\ stmt.children[1].name = "client"
                       /\ is_name(stmt.children[2], "requests")
                    \/ /\ stmt.type = "Call"
                       /\ stmt.children[1].type = "Name"
                       /\ stmt.children[1].name \in {"requests", "httpx", "Client"}

\* _validate_syntax
validate_syntax(parsed) == ~IsNone(parsed)

ErrNotCreated == "Service class was not created"

ErrNotRemoved == "Function was not removed from original class"

ErrEnvAccess == "Service class accesses environment variables"

ErrConcrete == "Service class uses concrete implementations instead of interfaces"

ErrSyntax == "Refactored code has syntax errors"

\* the messages of _run_validation_hooks in the order of its hooks
HookErrors == <<ErrNotCreated, ErrNotRemoved, ErrEnvAccess, ErrConcrete, ErrSyntax>>

\* the outcomes of the five hooks in the order _run_validation_hooks calls them
hook_outcomes(parsed, func_name, service) ==
  <<validate_service_class_created(parsed, service),
    validate_function_removed(parsed, func_name),
    validate_no_env_access(parsed, service),
    validate_interface_usage(parsed, service),
    validate_syntax(parsed)>>

\* the messages of the failed hooks among the hooks from position i on
RECURSIVE errors_from(_, _)
errors_from(outcomes, i) ==
  IF i > Len(outcomes) THEN <<>>
  ELSE (IF outcomes[i] THEN <<>> ELSE <<HookErrors[i]>>) \o errors_from(outcomes, i + 1)

\* variant: the last failed hook overwrites the messages of the others
run_validation_hooks_last_only(parsed, func_name, service) ==
  LET errors == errors_from(hook_outcomes(parsed, func_name, service), 1)
  IN ValidationResult(errors = <<>>,
                      IF errors = <<>> THEN <<>> ELSE <<errors[Len(errors)]>>)

\* _run_validation_hooks on the parsed current source
run_validation_hooks(parsed, func_name, service) ==
  LET errors == errors_from(hook_outcomes(parsed, func_name, service), 1)
  IN ValidationResult(errors = <<>>, errors)

(***************************************************************************)
(* The texts of a session as syntax trees.  The file as read holds the     *)
(* class with the function asked for, a passing candidate moved it to the  *)
(* service class and left a delegation, the other candidate's service      *)
(* class reads the environment.                                            *)
(***************************************************************************)
Self == Name("self")

\* self.service.execute(...)
Forward == Call(Attribute(Attribute(Self, "service"), "execute"))

\* total = a + b; return total
Implementation == <<Assign(Name("total"), BinOp(Name("a"), Name("b"))), Return(Name("total"))>>

\* os.environ
OsEnviron == Attribute(Name("os"), "environ")

\* os.getenv(...)
OsGetenv == Call(Attribute(Name("os"), "getenv"))

\* def __init__(self, client): self.client = client
InitInjected == FunctionDef("__init__", <<Assign(Attribute(Self, "client"), Name("client"))>>)

\* def execute(self): return self.client.get(...)
ExecuteClean ==
  FunctionDef("execute", <<Return(Call(Attribute(Attribute(Self, "client"), "get")))>>)

\* def execute(self): return os.getenv(...)
ExecuteGetenv == FunctionDef("execute", <<Return(OsGetenv)>>)

\* ast.parse of the texts of a session, for the function asked for
ast_parse(source, func_name, service) ==
  CASE source = SourceAsRead ->
         Some(Module(<<ClassDef("Original", <<FunctionDef(func_name, Implementation)>>)>>))
    [] source = CodeValid ->
         Some(Module(<<ClassDef("Original", <<FunctionDef(func_name, <<Return(Forward)>>)>>),
                       ClassDef(service, <<InitInjected, ExecuteClean>>)>>))
    [] source = CodeEnvAccess ->
         Some(Module(<<ClassDef("Original", <<FunctionDef(func_name, <<Return(Forward)>>)>>),
                       ClassDef(service, <<InitInjected, ExecuteGetenv>>)>>))

\* the functions a session names
SessionTargets == {AllFunctions[i] : i \in 1..Len(AllFunctions)}

\* _run_validation_hooks(func, service_class_name) on each candidate of a
\* session, for each function asked for
session_validation ==
  [source \in Codes, name \in SessionTargets |->
     run_validation_hooks(ast_parse(source, name, service_class_name(name)),
                          name, service_class_name(name))]

\* _identify_primary_function: the content of the last text message
PrimaryAnswers == {"run", ""}

\* functions_to_extract of a class: neither the constructor nor the primary
to_extract(functions, primary_function) ==
  SelectSeq(functions, LAMBDA name : name # "__init__" /\ name # primary_function)

(***************************************************************************)
(* refactor_file after the file is read and analysed: the classes are      *)
(* handed to _refactor_class one after the other.                          *)
(***************************************************************************)
NoFixing ==
  /\ current_result = None
  /\ previous_result = None
  /\ Fresh

InitRefactor ==
  /\ max_iterations \in RefactorCeilings
  /\ pc = "read"
  /\ iteration = 0
  /\ NoFixing
  /\ attempts = <<>>
  /\ file \in {None, Some(SourceAsRead)}
  /\ classes \in (IF IsNone(file) THEN {<<>>} ELSE ClassLists)
  /\ functions_to_extract = <<>>
  /\ func = ""
  /\ success = FALSE
  /\ failures = <<>>
  /\ current_source = ""
  /\ original_source = ""
  /\ head_attempts = 0
  /\ written = 0
  /\ NoCall
  /\ NoService

\* refactor_file up to its loop: the file is read, and analysed into classes
ReadFile ==
  /\ pc = "read"
  /\ IF IsNone(file)
       THEN /\ result' = "False"
            /\ pc' = "done"
            /\ UNCHANGED <<original_source, current_source>>
     ELSE /\ original_source' = Get(file)
          /\ current_source' = Get(file)
          /\ IF classes = <<>>
               THEN result' = "True" /\ pc' = "done"
             ELSE pc' = "classes" /\ UNCHANGED result
  /\ UNCHANGED <<max_iterations, queries_received, iteration, attempts, classes,
                 functions_to_extract, func, success, failures, head_attempts,
                 file, written>>
  /\ UNCHANGED fixer_only
  /\ UNCHANGED call_only
  /\ UNCHANGED service_only

\* for class_info in classes: _refactor_class up to the head of its loop
StartClass ==
  /\ pc = "classes"
  /\ classes # <<>>
  /\ queries_received' = Append(queries_received, "primary")
  /\ \E primary_function \in PrimaryAnswers :
       LET todo == to_extract(Head(classes), primary_function)
       IN /\ functions_to_extract' = todo
          /\ pc' = IF todo = <<>> THEN "classes" ELSE "while"
  /\ classes' = Tail(classes)
  /\ iteration' = 0
  /\ head_attempts' = 0
  /\ UNCHANGED <<max_iterations, result, attempts, func, success, failures,
                 current_source, original_source>>
  /\ UNCHANGED <<file, written>>
  /\ UNCHANGED fixer_only
  /\ UNCHANGED call_only
  /\ UNCHANGED service_only

\* how the write ends: done, or open raises and the file is as it was, or
\* write raises after open emptied the file
WriteOutcomes == {"written", "open raises", "write raises"}

\* with open(file_path, 'w') as f: f.write(self.current_source)
write_file(outcome, text, source) ==
  CASE outcome = "written" -> [file |-> Some(source), written |-> 1, result |-> "True"]
    [] outcome = "open raises" -> [file |-> text, written |-> 0, result |-> "False"]
    [] outcome = "write raises" -> [file |-> Some(""), written |-> 1, result |-> "False"]

\* every class is done: the current source is written back
WriteFile ==
  /\ pc = "classes"
  /\ classes = <<>>
  /\ \E outcome \in WriteOutcomes :
       LET ret == write_file(outcome, file, current_source)
       IN /\ file' = ret.file
          /\ written' = written + ret.written
          /\ result' = ret.result
  /\ pc' = "done"
  /\ UNCHANGED <<max_iterations, queries_received, iteration>>
  /\ UNCHANGED <<attempts, classes, functions_to_extract, func, success, failures,
                 current_source, original_source, head_attempts>>
  /\ UNCHANGED fixer_only
  /\ UNCHANGED call_only
  /\ UNCHANGED service_only

\* variant: a rejected candidate stays the current source
source_after_hooks_unreverted(validation, refactored_code, original) == refactored_code

\* _extract_function_to_service after the hooks: the candidate is kept when
\* they passed, otherwise self.current_source = self.original_source
source_after_hooks(validation, refactored_code, original) ==
  IF validation.passed THEN refactored_code ELSE original

\* one pass of the while loop up to the return of
\* _extract_function_to_service
ExtractFunctionToService ==
  /\ pc = "while"
  /\ functions_to_extract # <<>> /\ iteration < max_iterations
  /\ iteration' = iteration + 1
  /\ func' = Head(functions_to_extract)
  /\ queries_received' = Append(queries_received, "refactor")
  /\ \E reply \in RefactorReplies :
       LET name == Head(functions_to_extract)
           service == service_class_name(name)
           refactored_code == execute_refactoring(reply)
       IN IF IsNone(refactored_code)
            THEN /\ attempts' = record_attempt(attempts, name, service, FALSE,
                                               <<"Failed to generate refactored code">>)
                 /\ success' = FALSE
                 /\ UNCHANGED current_source
          ELSE LET validation ==
                     session_validation[Get(refactored_code), name]
               IN /\ current_source' = source_after_hooks(validation, Get(refactored_code),
                                                          original_source)
                  /\ attempts' = record_attempt(attempts, name, service, validation.passed,
                                                validation.errors)
                  /\ success' = validation.passed
  /\ head_attempts' = head_attempts + 1
  /\ pc' = "branch"
  /\ UNCHANGED <<max_iterations, result, classes, functions_to_extract, failures,
                 original_source>>
  /\ UNCHANGED <<file, written>>
  /\ UNCHANGED fixer_only
  /\ UNCHANGED call_only
  /\ UNCHANGED service_only

\* variant: the history is taken from the attempts of the class in hand only
BranchOnSuccess_class_history ==
  /\ pc = "branch"
  /\ IF success
       THEN /\ functions_to_extract' = Tail(functions_to_extract)
            /\ head_attempts' = 0
            /\ pc' = "while"
            /\ UNCHANGED failures
     ELSE /\ failures' = get_failure_history(
                           SubSeq(attempts, Len(attempts) - iteration + 1, Len(attempts)),
                           func)
          /\ pc' = "budget"
          /\ UNCHANGED <<functions_to_extract, head_attempts>>
  /\ UNCHANGED <<max_iterations, queries_received, iteration, result, attempts,
                 classes, func, success, current_source, original_source>>
  /\ UNCHANGED <<file, written>>
  /\ UNCHANGED fixer_only
  /\ UNCHANGED call_only
  /\ UNCHANGED service_only

\* if success: pop; else: failures = self._get_failure_history(func.name)
BranchOnSuccess ==
  /\ pc = "branch"
  /\ IF success
       THEN /\ functions_to_extract' = Tail(functions_to_extract)
            /\ head_attempts' = 0
            /\ pc' = "while"
            /\ UNCHANGED failures
     ELSE /\ failures' = get_failure_history(attempts, func)
          /\ pc' = "budget"
          /\ UNCHANGED <<functions_to_extract, head_attempts>>
  /\ UNCHANGED <<max_iterations, queries_received, iteration, result, attempts,
                 classes, func, success, current_source, original_source>>
  /\ UNCHANGED <<file, written>>
  /\ UNCHANGED fixer_only
  /\ UNCHANGED call_only
  /\ UNCHANGED service_only

\* variant: the target is given up after more than three failed attempts
RetryOrSkip_late ==
  /\ pc = "budget"
  /\ IF Len(failures) > RetryBudget
       THEN /\ functions_to_extract' = Tail(functions_to_extract)
            /\ head_attempts' = 0
     ELSE UNCHANGED <<functions_to_extract, head_attempts>>
  /\ pc' = "while"
  /\ UNCHANGED <<max_iterations, queries_received, iteration, result, attempts,
                 classes, func, success, failures, current_source, original_source>>
  /\ UNCHANGED <<file, written>>
  /\ UNCHANGED fixer_only
  /\ UNCHANGED call_only
  /\ UNCHANGED service_only

\* if len(failures) >= 3: pop, else retry
RetryOrSkip ==
  /\ pc = "budget"
  /\ IF Len(failures) >= RetryBudget
       THEN /\ functions_to_extract' = Tail(functions_to_extract)
            /\ head_attempts' = 0
     ELSE UNCHANGED <<functions_to_extract, head_attempts>>
  /\ pc' = "while"
  /\ UNCHANGED <<max_iterations, queries_received, iteration, result, attempts,
                 classes, func, success, failures, current_source, original_source>>
  /\ UNCHANGED <<file, written>>
  /\ UNCHANGED fixer_only
  /\ UNCHANGED call_only
  /\ UNCHANGED service_only

\* variant: the current source is written back when the class was not finished
ClassDone_flushed ==
  /\ pc = "while"
  /\ ~(functions_to_extract # <<>> /\ iteration < max_iterations)
  /\ IF functions_to_extract = <<>>
       THEN pc' = "classes" /\ UNCHANGED <<result, file, written>>
     ELSE /\ pc' = "done"
          /\ result' = "False"
          /\ file' = Some(current_source)
          /\ written' = written + 1
  /\ UNCHANGED <<max_iterations, queries_received, iteration>>
  /\ UNCHANGED <<attempts, classes, functions_to_extract, func, success, failures,
                 current_source, original_source, head_attempts>>
  /\ UNCHANGED fixer_only
  /\ UNCHANGED call_only
  /\ UNCHANGED service_only

\* the while condition fails: return len(functions_to_extract) == 0, and
\* refactor_file returns False for a class that was not finished
ClassDone ==
  /\ pc = "while"
  /\ ~(functions_to_extract # <<>> /\ iteration < max_iterations)
  /\ IF functions_to_extract = <<>>
       THEN pc' = "classes" /\ UNCHANGED result
     ELSE pc' = "done" /\ result' = "False"
  /\ UNCHANGED <<max_iterations, queries_received, iteration>>
  /\ UNCHANGED refactor_only
  /\ UNCHANGED fixer_only
  /\ UNCHANGED call_only
  /\ UNCHANGED service_only

NextRefactor ==
  \/ ReadFile
  \/ StartClass
  \/ WriteFile
  \/ ExtractFunctionToService
  \/ BranchOnSuccess
  \/ RetryOrSkip
  \/ ClassDone

SpecRefactor == InitRefactor /\ [][NextRefactor]_vars

(***************************************************************************)
(* _get_failure_history called on its own, as the unit tests do, on a      *)
(* ledger built by _record_attempt calls.                                  *)
(***************************************************************************)
LedgerTargets == {"f", "g"}

\* the ledger after n calls of _record_attempt with the targets and
\* outcomes given by calls
LedgerOf(n, calls) ==
  [i \in 1..n |->
     RefactoringAttempt(i, calls[i][1], service_class_name(calls[i][1]), calls[i][2],
                        IF calls[i][2] THEN <<>> ELSE <<"Error">>)]

Ledgers ==
  UNION {{LedgerOf(n, calls) : calls \in [1..n -> LedgerTargets \X BOOLEAN]} :
           n \in 0..MaxLedger}

InitHistory ==
  /\ max_iterations = MaxRefactorCeiling
  /\ pc = "history_call"
  /\ iteration = 0
  /\ NoFixing
  /\ attempts \in Ledgers
  /\ classes = <<>>
  /\ functions_to_extract = <<>>
  /\ func \in LedgerTargets
  /\ success = FALSE
  /\ failures = <<>>
  /\ current_source = SourceAsRead
  /\ original_source = SourceAsRead
  /\ head_attempts = 0
  /\ file = Some(SourceAsRead)
  /\ written = 0
  /\ NoCall
  /\ NoService

GetFailureHistory ==
  /\ pc = "history_call"
  /\ failures' = get_failure_history(attempts, func)
  /\ pc' = "history_return"
  /\ UNCHANGED <<max_iterations, queries_received, iteration, result, attempts,
                 classes, functions_to_extract, func, success, current_source,
                 original_source, head_attempts>>
  /\ UNCHANGED <<file, written>>
  /\ UNCHANGED fixer_only
  /\ UNCHANGED call_only
  /\ UNCHANGED service_only

NextHistory == GetFailureHistory

SpecHistory == InitHistory /\ [][NextHistory]_vars

(***************************************************************************)
(* The validators called on their own, as the unit tests do.  A candidate  *)
(* text is described by its facts and parsed into the tree they describe:  *)
(* the name of the original class, what is left of the function asked for, *)
(* and the constructor and the method of the service class, if there is    *)
(* one.                                                                    *)
(***************************************************************************)
OriginalNames == {"Calculator", "UserService"}

\* what the original class holds under the name of the function
TargetForms ==
  {"absent", "return forward", "return expression", "call forward", "implementation"}

ServiceInits == {"injected", "requests module", "Client()"}

ServiceExecutes == {"clean", "lambda os.environ", "listcomp os.getenv"}

\* the facts of the candidate texts
CandidateFacts ==
  {[parses |-> FALSE, host |-> "Calculator", target |-> "absent", service |-> FALSE,
    init |-> "injected", execute |-> "clean"]}
  \cup [parses : {TRUE}, host : OriginalNames, target : TargetForms, service : {FALSE},
        init : {"injected"}, execute : {"clean"}]
  \cup [parses : {TRUE}, host : OriginalNames, target : TargetForms, service : {TRUE},
        init : ServiceInits, execute : ServiceExecutes]

\* the body of the function under each form
target_body(form) ==
  CASE form = "return forward" -> <<Return(Forward)>>
    [] form = "return expression" -> <<Return(BinOp(Name("a"), Name("b")))>>
    [] form = "call forward" -> <<Expr(Forward)>>
    [] form = "implementation" -> Implementation

init_body(form) ==
  CASE form = "injected" -> <<Assign(Attribute(Self, "client"), Name("client"))>>
    [] form = "requests module" -> <<Assign(Attribute(Self, "client"), Name("requests"))>>
    [] form = "Client()" -> <<Assign(Attribute(Self, "session"), Call(Name("Client")))>>

execute_body(form) ==
  CASE form = "clean" -> ExecuteClean.children
    [] form = "lambda os.environ" -> <<Assign(Name("read"), Lambda(OsEnviron))>>
    [] form = "listcomp os.getenv" -> <<Return(ListComp(OsGetenv))>>

\* ast.parse of the text with these facts
parsed_candidate(facts, func_name, service) ==
  IF ~facts.parses THEN None
  ELSE LET kept == <<FunctionDef("run", <<Return(Name("a"))>>)>>
           left == IF facts.target = "absent" THEN <<>>
                   ELSE <<FunctionDef(func_name, target_body(facts.target))>>
           original == ClassDef(facts.host, kept \o left)
           added == IF facts.service
                      THEN <<ClassDef(service,
                                      <<FunctionDef("__init__", init_body(facts.init)),
                                        FunctionDef("execute", execute_body(facts.execute))>>)>>
                    ELSE <<>>
       IN Some(Module(<<original>> \o added))

HookTargets == {"f", "g"}

\* _run_validation_hooks(func, service_class_name) on a current source
HookCalls ==
  {[facts |-> facts, parsed |-> parsed_candidate(facts, name, service_class_name(name)),
    func_name |-> name, service_class_name |-> service_class_name(name)] :
     facts \in CandidateFacts, name \in HookTargets}

(***************************************************************************)
(* The function nodes handed to _check_env_access: one statement whose     *)
(* expression is wrapped in lambdas and comprehensions.                    *)
(***************************************************************************)
Wrappers == {"Lambda", "ListComp"}

Nestings == UNION {[1..n -> Wrappers] : n \in 0..MaxNesting}

\* the expressions at the core, by the way they are written
Styles == {"os.environ", "os.getenv()", "os.path", "config.environ", "value"}

core(style) ==
  CASE style = "os.environ" -> OsEnviron
    [] style = "os.getenv()" -> OsGetenv
    [] style = "os.path" -> Attribute(Name("os"), "path")
    [] style = "config.environ" -> Attribute(Name("config"), "environ")
    [] style = "value" -> Name("value")

\* the expression inside the wrappers, the first wrapper outermost
RECURSIVE wrapped(_, _)
wrapped(expression, nesting) ==
  IF nesting = <<>> THEN expression
  ELSE Node(Head(nesting), "", <<wrapped(expression, Tail(nesting))>>)

Statements == {"Return", "Assign"}

statement(kind, expression) ==
  IF kind = "Return" THEN Return(expression) ELSE Assign(Name("read"), expression)

EnvCalls ==
  {[style |-> style, nesting |-> nesting, statement |-> kind,
    func_node |-> FunctionDef("execute",
                              <<statement(kind, wrapped(core(style), nesting))>>)] :
     style \in Styles, nesting \in Nestings, kind \in Statements}

(***************************************************************************)
(* RefactorAgentWithHooks (src/src/test_fixer_agent_team.py).  A source    *)
(* text either does not parse or holds functions; a function is its node   *)
(* with its first and last line and what its signature declares.           *)
(***************************************************************************)
max_function_lines == 30

\* the module and class names of the model that contain a client pattern
ClientNamed == {"requests", "httpx"}

\* _check_client_creation: the names found
check_client_creation(node) ==
  {child.children[1].children[1].name :
     child \in {c \in walk(node) : /\ c.type = "Call"
                                   /\ c.children[1].type = "Attribute"
                                   /\ c.children[1].children[1].type = "Name"
                                   /\ c.children[1].children[1].name \in ClientNamed}}
  \cup {child.children[1].name :
          child \in {c \in walk(node) : /\ c.type = "Call"
                                        /\ c.children[1].type = "Name"
                                        /\ c.children[1].name \in ClientNamed}}

\* _extract_function_info
extract_function_info(function) ==
  LET start_line == function.lineno - 1
      end_line == function.end_lineno
  IN [name |-> function.node.name,
      function_lines |-> end_line - start_line,
      has_env_access |-> hooks_check_env_access(function.node),
      creates_clients |-> check_client_creation(function.node),
      has_typed_args |-> function.typed_args,
      has_typed_return |-> function.returns,
      has_default_args |-> function.defaults]

\* _analyze_function: None when the text does not parse or has no function
\* of that name
analyze_function(source_code, function_name) ==
  IF ~source_code.parses THEN None
  ELSE LET found == SelectSeq(source_code.functions,
                              LAMBDA function : function.node.name = function_name)
       IN IF found = <<>> THEN None ELSE Some(extract_function_info(Head(found)))

\* ValidationIssue (dataclass); the message is left out
ValidationIssue(hook_name, passed) ==
  [hook_name |-> hook_name, passed |-> passed, severity |-> "error"]

HookNames ==
  <<"max_function_length", "no_env_access", "no_client_creation", "typed_arguments",
    "typed_return", "no_default_arguments">>

\* RefactorAgentWithHooks._run_validation_hooks
hooks_run_validation_hooks(function_info) ==
  IF IsNone(function_info) THEN <<ValidationIssue("function_exists", FALSE)>>
  ELSE LET info == Get(function_info)
       IN <<ValidationIssue("max_function_length",
                            ~(info.function_lines > max_function_lines)),
            ValidationIssue("no_env_access", ~info.has_env_access),
            ValidationIssue("no_client_creation", info.creates_clients = {}),
            ValidationIssue("typed_arguments", info.has_typed_args),
            ValidationIssue("typed_return", info.has_typed_return),
            ValidationIssue("no_default_arguments", ~info.has_default_args)>>

\* all(issue.passed for issue in issues)
all_passed(issues) == \A i \in 1..Len(issues) : issues[i].passed

\* the texts handed to the agent, by their facts
\* first and last line of the function
Spans == {<<1, max_function_lines>>, <<1, max_function_lines + 1>>, <<5, max_function_lines + 4>>}

TeamBodies == {"clean", "lambda os.environ", "listcomp os.getenv", "requests.get()"}

TeamFacts ==
  [found : {"syntax error", "missing"}, span : {<<1, 1>>}, body : {"clean"},
   typed_args : {TRUE}, typed_return : {TRUE}, default_args : {FALSE}]
  \cup [found : {"found"}, span : Spans, body : TeamBodies, typed_args : BOOLEAN,
        typed_return : BOOLEAN, default_args : BOOLEAN]

team_body(form) ==
  CASE form = "clean" -> <<Return(Name("value"))>>
    [] form = "lambda os.environ" -> <<Assign(Name("read"), Lambda(OsEnviron))>>
    [] form = "listcomp os.getenv" -> <<Return(ListComp(OsGetenv))>>
    [] form = "requests.get()" -> <<Return(Call(Attribute(Name("requests"), "get")))>>

\* the text with these facts, for the function asked for
team_source(facts, function_name) ==
  [parses |-> facts.found # "syntax error",
   functions |-> IF facts.found = "found"
                   THEN <<[node |-> FunctionDef(function_name, team_body(facts.body)),
                           lineno |-> facts.span[1],
                           end_lineno |-> facts.span[2],
                           typed_args |-> facts.typed_args,
                           returns |-> facts.typed_return,
                           defaults |-> facts.default_args]>>
                 ELSE <<>>]

\* _run_validation_hooks(self._analyze_function(source_code, name), source_code)
TeamCalls ==
  {[facts |-> facts, source_code |-> team_source(facts, "f"), function_name |-> "f"] :
     facts \in TeamFacts}

\* nothing else is at work
Idle ==
  /\ max_iterations = 0
  /\ iteration = 0
  /\ NoFixing
  /\ NoRefactoring
  /\ NoService
  /\ returned = <<>>

InitValidators ==
  /\ Idle
  /\ \/ pc = "hooks_call" /\ args \in HookCalls
     \/ pc = "env_call" /\ args \in EnvCalls
     \/ pc = "team_env_call" /\ args \in EnvCalls
     \/ pc = "team_hooks_call" /\ args \in TeamCalls

\* RefactoringAgent._run_validation_hooks
RunValidationHooks ==
  /\ pc = "hooks_call"
  /\ returned' = run_validation_hooks(args.parsed, args.func_name, args.service_class_name)
  /\ pc' = "hooks_return"
  /\ UNCHANGED <<max_iterations, queries_received, iteration, result, args>>
  /\ UNCHANGED fixer_only
  /\ UNCHANGED refactor_only
  /\ UNCHANGED service_only

\* RefactoringAgent._check_env_access
CheckEnvAccess ==
  /\ pc = "env_call"
  /\ returned' = check_env_access(args.func_node)
  /\ pc' = "env_return"
  /\ UNCHANGED <<max_iterations, queries_received, iteration, result, args>>
  /\ UNCHANGED fixer_only
  /\ UNCHANGED refactor_only
  /\ UNCHANGED service_only

\* RefactorAgentWithHooks._check_env_access
HooksCheckEnvAccess ==
  /\ pc = "team_env_call"
  /\ returned' = hooks_check_env_access(args.func_node)
  /\ pc' = "team_env_return"
  /\ UNCHANGED <<max_iterations, queries_received, iteration, result, args>>
  /\ UNCHANGED fixer_only
  /\ UNCHANGED refactor_only
  /\ UNCHANGED service_only

\* RefactorAgentWithHooks._run_validation_hooks on an analysed function
HooksRunValidationHooks ==
  /\ pc = "team_hooks_call"
  /\ returned' = hooks_run_validation_hooks(analyze_function(args.source_code,
                                                             args.function_name))
  /\ pc' = "team_hooks_return"
  /\ UNCHANGED <<max_iterations, queries_received, iteration, result, args>>
  /\ UNCHANGED fixer_only
  /\ UNCHANGED refactor_only
  /\ UNCHANGED service_only

NextValidators ==
  \/ RunValidationHooks
  \/ CheckEnvAccess
  \/ HooksCheckEnvAccess
  \/ HooksRunValidationHooks

SpecValidators == InitValidators /\ [][NextValidators]_vars

(***************************************************************************)
(* analyze_and_refactor of RefactorAgentWithHooks.                         *)
(***************************************************************************)
\* RefactoringResult (model); file_path is left out
RefactoringResult(function_name, ok, validation_issues, changes_summary, refactored_code) ==
  [function_name |-> function_name, success |-> ok,
   validation_issues |-> validation_issues, changes_summary |-> changes_summary,
   refactored_code |-> refactored_code]

TestMethods == {"test_f", "test_"}

\* _identify_function_under_test: the method name without its prefix test_
identify_function_under_test(test_method) ==
  CASE test_method = "test_f" -> "f"
    [] test_method = "test_" -> ""

\* _refactor_with_claude: for now, return the original source code
refactor_with_claude(source_code) == source_code

failed_count(issues) == Cardinality({i \in 1..Len(issues) : ~issues[i].passed})

\* _generate_changes_summary: the message and the numbers it interpolates
generate_changes_summary(before_issues, after_issues) ==
  LET fixed_count == failed_count(before_issues) - failed_count(after_issues)
  IN IF fixed_count > 0
       THEN <<"Fixed validation issue(s), remaining", fixed_count, failed_count(after_issues)>>
     ELSE IF fixed_count = 0 THEN <<"No validation issues were resolved.">>
     ELSE <<"Refactoring introduced new issue(s)", -fixed_count>>

\* variant: the refactored code is written back whatever the validation says
write_back_unchecked(ok, dry_run, source_file, refactored_code) ==
  IF ~dry_run THEN [file |-> Some(refactored_code), written |-> 1]
  ELSE [file |-> source_file, written |-> 0]

\* if success and not self.dry_run: source_file.write_text(refactored_code)
write_back(ok, dry_run, source_file, refactored_code) ==
  IF ok /\ ~dry_run THEN [file |-> Some(refactored_code), written |-> 1]
  ELSE [file |-> source_file, written |-> 0]

\* analyze_and_refactor: the result, and the source file after the call.
\* double is None for _refactor_with_claude as it is written, and the text
\* returned in its place when the method is replaced by a double.
analyze_and_refactor(dry_run, test_method, source_file, double) ==
  LET function_under_test == identify_function_under_test(test_method)
      untouched(res) == [result |-> res, file |-> source_file, written |-> 0]
  IN IF function_under_test = ""
       THEN untouched(RefactoringResult("Unknown", FALSE,
                                        <<ValidationIssue("identify_function", FALSE)>>,
                                        <<"Could not identify function under test">>, None))
     ELSE IF IsNone(source_file)
       THEN untouched(RefactoringResult(function_under_test, FALSE, <<>>,
                                        <<"Source file not found">>, None))
     ELSE
       LET source_code == Get(source_file)
           function_info == analyze_function(source_code, function_under_test)
       IN IF IsNone(function_info)
            THEN untouched(RefactoringResult(function_under_test, FALSE, <<>>,
                                             <<"Function not found">>, None))
          ELSE
            LET validation_issues == hooks_run_validation_hooks(function_info)
            IN IF all_passed(validation_issues)
                 THEN untouched(RefactoringResult(
                                  function_under_test, TRUE, validation_issues,
                                  <<"Function already meets all testability guidelines">>,
                                  None))
               ELSE
                 LET refactored_code == IF IsNone(double) THEN refactor_with_claude(source_code)
                                        ELSE Get(double)
                     post_validation ==
                       hooks_run_validation_hooks(analyze_function(refactored_code,
                                                                   function_under_test))
                     ok == all_passed(post_validation)
                     disk == write_back(ok, dry_run, source_file, refactored_code)
                 IN [result |-> RefactoringResult(
                                  function_under_test, ok, post_validation,
                                  generate_changes_summary(validation_issues, post_validation),
                                  IF ok THEN Some(refactored_code) ELSE None),
                     file |-> disk.file,
                     written |-> disk.written]

\* the texts a double returns: one meeting every guideline, one reading the
\* environment, one that does not parse
DoubleFacts ==
  {[found |-> "found", span |-> <<1, max_function_lines>>, body |-> "clean",
    typed_args |-> TRUE, typed_return |-> TRUE, default_args |-> FALSE],
   [found |-> "found", span |-> <<1, max_function_lines>>, body |-> "listcomp os.getenv",
    typed_args |-> TRUE, typed_return |-> TRUE, default_args |-> FALSE],
   [found |-> "syntax error", span |-> <<1, 1>>, body |-> "clean",
    typed_args |-> TRUE, typed_return |-> TRUE, default_args |-> FALSE]}

\* the source file of the failing test: missing, or a text
SourceFiles == {None} \cup {Some(team_source(facts, "f")) : facts \in TeamFacts}

InitTeam ==
  /\ max_iterations = 0
  /\ iteration = 0
  /\ NoFixing
  /\ attempts = <<>>
  /\ classes = <<>>
  /\ functions_to_extract = <<>>
  /\ func = ""
  /\ success = FALSE
  /\ failures = <<>>
  /\ current_source = ""
  /\ original_source = ""
  /\ head_attempts = 0
  /\ written = 0
  /\ pc = "team_call"
  /\ file \in SourceFiles
  /\ args \in [dry_run : BOOLEAN, test_method : TestMethods, source_file : {file},
               double : {None} \cup {Some(team_source(facts, "f")) : facts \in DoubleFacts}]
  /\ returned = <<>>
  /\ NoService

AnalyzeAndRefactor ==
  /\ pc = "team_call"
  /\ LET ret == analyze_and_refactor(args.dry_run, args.test_method, file, args.double)
     IN /\ returned' = ret.result
        /\ file' = ret.file
        /\ written' = written + ret.written
  /\ pc' = "team_return"
  /\ UNCHANGED <<max_iterations, queries_received, iteration, result, args>>
  /\ UNCHANGED <<attempts, classes, functions_to_extract, func, success, failures,
                 current_source, original_source, head_attempts>>
  /\ UNCHANGED fixer_only
  /\ UNCHANGED service_only

NextTeam == AnalyzeAndRefactor

SpecTeam == InitTeam /\ [][NextTeam]_vars

(***************************************************************************)
(* parse_unittest_failures (src/src/parse_unittest_failures.py).  The      *)
(* output of the test runner is a sequence of tokens: the words FAIL: and  *)
(* ERROR:, a test method name, a dotted path, the parentheses, a space, a  *)
(* line break, a run of 70 or of 69 equals signs, a run of 70 dashes, the  *)
(* file line and the error line of a traceback, and other text.            *)
(***************************************************************************)
TokFail == "FAIL:"

TokError == "ERROR:"

Space == " "

LineBreak == "line break"

Rule70 == "= x 70"

Rule69 == "= x 69"

Dashes70 == "- x 70"

Open == "("

Close == ")"

MethodName == "test_m"

Paths == {"test_m", "suite", "mod.test_m", "mod.Cls.test_m", "pkg.mod.Cls.test_m"}

FileLine == "File t.py, line 3, in test_m"

ErrorLine == "AssertionError: boom"

OtherText == "text"

\* \s
Whitespace == {Space, LineBreak}

\* \w+
Words == {MethodName, OtherText}

\* full_test_path.split('.')
path_parts(full_test_path) ==
  CASE full_test_path = "test_m" -> <<"test_m">>
    [] full_test_path = "suite" -> <<"suite">>
    [] full_test_path = "mod.test_m" -> <<"mod", "test_m">>
    [] full_test_path = "mod.Cls.test_m" -> <<"mod", "Cls", "test_m">>
    [] full_test_path = "pkg.mod.Cls.test_m" -> <<"pkg", "mod", "Cls", "test_m">>
    [] OTHER -> <<full_test_path>>

\* re.split(r'={70,}\n', test_output): the pieces between the delimiters;
\* block is the piece read so far
RECURSIVE re_split(_, _)
re_split(text, block) ==
  IF text = <<>> THEN <<block>>
  ELSE IF Len(text) >= 2 /\ text[1] = Rule70 /\ text[2] = LineBreak
    THEN <<block>> \o re_split(SubSeq(text, 3, Len(text)), <<>>)
  ELSE re_split(Tail(text), Append(block, Head(text)))

\* the first position from i on that holds no whitespace
RECURSIVE skip_whitespace(_, _)
skip_whitespace(block, i) ==
  IF i <= Len(block) /\ block[i] \in Whitespace THEN skip_whitespace(block, i + 1) ELSE i

\* block.strip()
RECURSIVE strip_whitespace(_)
strip_whitespace(block) ==
  IF block = <<>> THEN block
  ELSE IF Head(block) \in Whitespace THEN strip_whitespace(Tail(block))
  ELSE IF block[Len(block)] \in Whitespace
    THEN strip_whitespace(SubSeq(block, 1, Len(block) - 1))
  ELSE block

\* variant: a header without the path in parentheses is accepted as well
header_match_method_only(block) ==
  IF block = <<>> THEN None
  ELSE IF block[1] # TokFail THEN None
  ELSE LET a == skip_whitespace(block, 2)
       IN IF a = 2 \/ a > Len(block) THEN None
          ELSE IF block[a] \notin Words THEN None
          ELSE Some([test_method |-> block[a], full_test_path |-> <<block[a]>>])

\* re.match(r'FAIL:\s+(\w+)\s+\(([^)]+)\)', block): the two groups, None
\* without a match
header_match(block) ==
  IF block = <<>> THEN None
  ELSE IF block[1] # TokFail THEN None
  ELSE LET a == skip_whitespace(block, 2)
           b == skip_whitespace(block, a + 1)
           closing == {c \in (b + 1)..Len(block) : block[c] = Close}
       IN IF a = 2 \/ a > Len(block) THEN None
          ELSE IF block[a] \notin Words THEN None
          ELSE IF b = a + 1 \/ b > Len(block) THEN None
          ELSE IF block[b] # Open \/ closing = {} THEN None
          ELSE LET c == CHOOSE i \in closing : \A j \in closing : i <= j
               IN IF c = b + 1 THEN None
                  ELSE Some([test_method |-> block[a],
                             full_test_path |-> SubSeq(block, b + 1, c - 1)])

\* FailingTest (dataclass)
FailingTest(test_file, test_name, test_class, test_method, error_type, error_message, traceback, line_number) ==
  [test_file |-> test_file, test_name |-> test_name, test_class |-> test_class,
   test_method |-> test_method, error_type |-> error_type,
   error_message |-> error_message, traceback |-> traceback, line_number |-> line_number]

\* the text after the first line of 70 dashes, None without such a line or
\* without text after it
after_dashes(block) ==
  LET rules == {i \in 1..(Len(block) - 2) : block[i] = Dashes70 /\ block[i + 1] = LineBreak}
  IN IF rules = {} THEN None
     ELSE LET r == CHOOSE i \in rules : \A j \in rules : i <= j
          IN Some(SubSeq(block, r + 2, Len(block)))

\* variant: the class is the second segment of the path, and the name is the
\* path whatever its length
failing_test_second_segment(block, header) ==
  LET full_test_path == header.full_test_path[1]
      parts == path_parts(full_test_path)
      file_match == contains(block, FileLine)
      error_match == contains(block, ErrorLine)
      traceback_match == after_dashes(block)
  IN FailingTest(IF file_match THEN "t.py" ELSE "unknown",
                 full_test_path,
                 IF Len(parts) >= 3 THEN Some(parts[2]) ELSE None,
                 header.test_method,
                 IF error_match THEN "AssertionError" ELSE "Unknown",
                 IF error_match THEN "boom" ELSE "Test failed",
                 IF IsNone(traceback_match) THEN block
                 ELSE strip_whitespace(Get(traceback_match)),
                 IF file_match THEN Some(3) ELSE None)

\* the record of a block whose header matched
failing_test(block, header) ==
  LET full_test_path == header.full_test_path[1]
      parts == path_parts(full_test_path)
      test_class == IF Len(parts) >= 3 THEN Some(parts[Len(parts) - 1]) ELSE None
      test_name == IF Len(parts) >= 2 THEN full_test_path ELSE header.test_method
      file_match == contains(block, FileLine)
      error_match == contains(block, ErrorLine)
      traceback_match == after_dashes(block)
  IN FailingTest(IF file_match THEN "t.py" ELSE "unknown",
                 test_name, test_class, header.test_method,
                 IF error_match THEN "AssertionError" ELSE "Unknown",
                 IF error_match THEN "boom" ELSE "Test failed",
                 IF IsNone(traceback_match) THEN block
                 ELSE strip_whitespace(Get(traceback_match)),
                 IF file_match THEN Some(3) ELSE None)

\* the loop over the blocks
RECURSIVE failures_of(_)
failures_of(failure_blocks) ==
  IF failure_blocks = <<>> THEN <<>>
  ELSE LET block == Head(failure_blocks)
           rest == failures_of(Tail(failure_blocks))
       IN IF strip_whitespace(block) = <<>> THEN rest
          ELSE IF block[1] # TokFail THEN rest
          ELSE LET header == header_match(block)
               IN IF IsNone(header) THEN rest
                  ELSE <<failing_test(block, Get(header))>> \o rest

parse_unittest_failures(test_output) == failures_of(re_split(test_output, <<>>))

(***************************************************************************)
(* The outputs handed to the parser: up to MaxLines lines of these kinds.  *)
(***************************************************************************)
LineKinds ==
  {"rule 70", "rule 69", "text rule 70", "header 1", "header 2", "header 3",
   "header 4", "header other", "header no path", "header ()", "error header", "indented header", "path",
   "dashes", "file", "error", "blank"}

header_line(full_test_path) ==
  <<TokFail, Space, MethodName, Space, Open, full_test_path, Close, LineBreak>>

line(kind) ==
  CASE kind = "rule 70" -> <<Rule70, LineBreak>>
    [] kind = "rule 69" -> <<Rule69, LineBreak>>
    [] kind = "text rule 70" -> <<OtherText, Rule70, LineBreak>>
    [] kind = "header 1" -> header_line("test_m")
    [] kind = "header 2" -> header_line("mod.test_m")
    [] kind = "header 3" -> header_line("mod.Cls.test_m")
    [] kind = "header 4" -> header_line("pkg.mod.Cls.test_m")
    [] kind = "header other" -> header_line("suite")
    [] kind = "header no path" -> <<TokFail, Space, MethodName, LineBreak>>
    [] kind = "header ()" -> <<TokFail, Space, MethodName, Space, Open, Close, LineBreak>>
    [] kind = "error header" ->
         <<TokError, Space, MethodName, Space, Open, "mod.Cls.test_m", Close, LineBreak>>
    [] kind = "indented header" -> <<Space>> \o header_line("mod.Cls.test_m")
    [] kind = "path" -> <<Open, "mod.test_m", Close, LineBreak>>
    [] kind = "dashes" -> <<Dashes70, LineBreak>>
    [] kind = "file" -> <<Space, FileLine, LineBreak>>
    [] kind = "error" -> <<ErrorLine, LineBreak>>
    [] kind = "blank" -> <<LineBreak>>

\* the text of the lines
RECURSIVE joined(_)
joined(kinds) == IF kinds = <<>> THEN <<>> ELSE line(Head(kinds)) \o joined(Tail(kinds))

TestOutputs == UNION {[1..n -> LineKinds] : n \in 0..MaxLines}

InitParse ==
  /\ Idle
  /\ pc = "parse_call"
  /\ args \in {[lines |-> kinds, test_output |-> joined(kinds)] : kinds \in TestOutputs}

ParseUnittestFailures ==
  /\ pc = "parse_call"
  /\ returned' = parse_unittest_failures(args.test_output)
  /\ pc' = "parse_return"
  /\ UNCHANGED <<max_iterations, queries_received, iteration, result, args>>
  /\ UNCHANGED fixer_only
  /\ UNCHANGED refactor_only
  /\ UNCHANGED service_only

NextParse == ParseUnittestFailures

SpecParse == InitParse /\ [][NextParse]_vars

(***************************************************************************)
(* run_tests called on its own: what the two streams of the verification   *)
(* command hold is free.                                                   *)
(***************************************************************************)
ExitCodes == {0, 1}

RunsCalled ==
  {Completed(rc, out, err) :
     rc \in ExitCodes, out \in SeqsUpTo(Lines, MaxStdout), err \in SeqsUpTo(Lines, MaxStderr)}
  \cup {TimeoutExpired, FileNotFound}

InitRun ==
  /\ Idle
  /\ pc = "run_call"
  /\ args \in {[ended |-> e] : e \in RunsCalled}

RunTestsCalled ==
  /\ pc = "run_call"
  /\ returned' = run_tests(args.ended)
  /\ pc' = "run_return"
  /\ UNCHANGED <<max_iterations, queries_received, iteration, result, args>>
  /\ UNCHANGED fixer_only
  /\ UNCHANGED refactor_only
  /\ UNCHANGED service_only

NextRun == RunTestsCalled

SpecRun == InitRun /\ [][NextRun]_vars

(***************************************************************************)
(* FakeClaudeService called on its own.  args is the log of the calls made *)
(* on the service, returned what the last receive_response call yielded.   *)
(* receive_response is an async generator: the statement after its yield   *)
(* runs when the consumer asks for the next item, and never when the       *)
(* consumer stops at the item it was given.                                *)
(***************************************************************************)
Responses == {"r1", "r2"}

Prompts == {"p", "q"}

\* the argument of the constructor
Configured == {None} \cup {Some(r) : r \in SeqsUpTo(Responses, MaxResponses)}

QueryCall(prompt) == [op |-> "query", prompt |-> prompt, drained |-> TRUE, yielded |-> <<>>]

ReceiveCall(drained, yielded) ==
  [op |-> "receive_response", prompt |-> "", drained |-> drained, yielded |-> yielded]

ResetCall == [op |-> "reset", prompt |-> "", drained |-> TRUE, yielded |-> <<>>]

\* self.mock_responses = mock_responses or []
InitService ==
  /\ max_iterations = 0
  /\ iteration = 0
  /\ NoFixing
  /\ NoRefactoring
  /\ pc = "service"
  /\ args = <<>>
  /\ returned = <<>>
  /\ \E configured \in Configured :
       mock_responses = IF IsNone(configured) THEN <<>> ELSE Get(configured)
  /\ query_count = 0
  /\ response_index = 0

Query ==
  /\ pc = "service"
  /\ Len(args) < MaxCalls
  /\ \E prompt \in Prompts :
       /\ queries_received' = Append(queries_received, prompt)
       /\ args' = Append(args, QueryCall(prompt))
  /\ query_count' = query_count + 1
  /\ UNCHANGED <<max_iterations, pc, iteration, result, returned, mock_responses,
                 response_index>>
  /\ UNCHANGED fixer_only
  /\ UNCHANGED refactor_only

\* what one call yields
chunks_of(responses, index) ==
  IF index < Len(responses) THEN <<responses[index + 1]>> ELSE <<>>

\* variant: the index is advanced before the item is handed out
index_after_eager(responses, index, drained) ==
  IF index < Len(responses) THEN index + 1 ELSE index

\* the index after one call: the increment follows the yield
index_after(responses, index, drained) ==
  IF index < Len(responses) /\ drained THEN index + 1 ELSE index

ReceiveResponse ==
  /\ pc = "service"
  /\ Len(args) < MaxCalls
  /\ \E drained \in BOOLEAN :
       /\ returned' = chunks_of(mock_responses, response_index)
       /\ response_index' = index_after(mock_responses, response_index, drained)
       /\ args' = Append(args, ReceiveCall(drained, chunks_of(mock_responses, response_index)))
  /\ UNCHANGED <<max_iterations, queries_received, pc, iteration, result, mock_responses,
                 query_count>>
  /\ UNCHANGED fixer_only
  /\ UNCHANGED refactor_only

Reset ==
  /\ pc = "service"
  /\ Len(args) < MaxCalls
  /\ queries_received' = <<>>
  /\ response_index' = 0
  /\ query_count' = 0
  /\ args' = Append(args, ResetCall)
  /\ UNCHANGED <<max_iterations, pc, iteration, result, returned, mock_responses>>
  /\ UNCHANGED fixer_only
  /\ UNCHANGED refactor_only

NextService == Query \/ ReceiveResponse \/ Reset

SpecService == InitService /\ [][NextService]_vars

(***************************************************************************)
(* Vocabulary of the properties.                                           *)
(***************************************************************************)
Cur == Get(current_result)

Prev == Get(previous_result)

HasPrev == Len(previous_result) = 1

Failing == Cur.failed >= 1

CeilingReached == iteration >= max_iterations

ScopeDropped == HasPrev /\ Prev.total - Cur.total > 2

CountIncreased == HasPrev /\ Prev.failed < Cur.failed

SameSummaries == HasPrev /\ Len(Cur.failures) = Len(Prev.failures)
                   /\ \A i \in 1..Len(Cur.failures) : Cur.failures[i] = Prev.failures[i]

\* queries issued by the iterations before the current one: three each
QueriesBefore == 3 * (iteration - 1)

(***************************************************************************)
(* C1.  check_stopping_conditions returns stop with the success reason     *)
(* whenever the current result has failed = 0, whatever the iteration      *)
(* number, the ceiling and the previous result (none included).            *)
(***************************************************************************)
C1_ZeroFailedStopsWithSuccess ==
  (pc = "eval_return" /\ Cur.failed = 0) =>
    (should_stop /\ reason = Reason(MsgSuccess, <<>>))

\* zero failures at a reached ceiling, with a previous run that had fewer
\* tests failing: every later condition would match, success is reported
C1_Witness ==
  /\ pc = "eval_return"
  /\ Cur.failed = 0
  /\ CeilingReached
  /\ HasPrev /\ Prev.total - Cur.total > 2
  /\ should_stop /\ reason.kind = MsgSuccess

(***************************************************************************)
(* C3.  Every evaluation produces exactly one outcome, that of the first   *)
(* matching condition in the order success, safety ceiling, scope          *)
(* regression, count regression, no progress, otherwise continue.          *)
(***************************************************************************)
C3_FirstMatchWins ==
  pc = "eval_return" =>
    /\ (reason.kind = MsgSuccess) <=> ~Failing
    /\ (reason.kind = MsgSafety) <=> (Failing /\ CeilingReached)
    /\ (reason.kind = MsgScope) <=> (Failing /\ ~CeilingReached /\ ScopeDropped)
    /\ (reason.kind = MsgRegression) <=>
         (Failing /\ ~CeilingReached /\ ~ScopeDropped /\ CountIncreased)
    /\ (reason.kind = MsgNoProgress) <=>
         (Failing /\ ~CeilingReached /\ ~ScopeDropped /\ ~CountIncreased /\ SameSummaries)
    /\ (reason.kind = MsgContinue) <=>
         (Failing /\ ~CeilingReached /\ ~ScopeDropped /\ ~CountIncreased /\ ~SameSummaries)
    /\ should_stop <=> (reason.kind # MsgContinue)
    /\ reason.kind = MsgSafety => reason.args = <<max_iterations>>
    /\ reason.kind = MsgScope => reason.args = <<Prev.total, Cur.total>>
    /\ reason.kind = MsgRegression => reason.args = <<Prev.failed, Cur.failed>>

\* the total dropped by more than 2 and the failed count increased: the
\* scope reason is the one reported
C3_Witness ==
  /\ pc = "eval_return"
  /\ Failing /\ ~CeilingReached
  /\ ScopeDropped /\ CountIncreased
  /\ should_stop /\ reason.kind = MsgScope

(***************************************************************************)
(* C5.  With failures present, the ceiling not reached, a previous result  *)
(* available and no scope regression, the outcome is stop-regression-count *)
(* exactly when the current failed count is greater than the previous one  *)
(* (current.is_worse_than(previous)).                                      *)
(***************************************************************************)
C5_CountRegressionExactlyWhenWorse ==
  (pc = "eval_return" /\ Failing /\ ~CeilingReached /\ HasPrev /\ ~ScopeDropped) =>
    /\ (should_stop /\ reason.kind = MsgRegression) <=> (Cur.failed > Prev.failed)
    /\ (reason.kind = MsgRegression) <=> is_worse_than(Cur, Prev)

\* an equal failed count, different summaries: no regression stop
C5_Witness ==
  /\ pc = "eval_return"
  /\ Failing /\ ~CeilingReached /\ HasPrev /\ ~ScopeDropped
  /\ Cur.failed = Prev.failed
  /\ ~SameSummaries
  /\ ~should_stop

(***************************************************************************)
(* C2.  At the ceiling with failures present the evaluator yields          *)
(* stop-safety for every previous result, and fix_tests ends the session   *)
(* there without asking the oracle: no position of the loop past the       *)
(* branch is reached in the ceiling iteration, no query is issued in it,   *)
(* and the session returns False.                                          *)
(***************************************************************************)
C2_SafetyStopAtCeilingWithoutOracle ==
  /\ (pc = "checked" /\ Failing /\ CeilingReached) =>
       /\ should_stop
       /\ reason = Reason(MsgSafety, <<max_iterations>>)
       /\ Len(queries_received) = QueriesBefore
  /\ (pc = "done" /\ should_stop /\ reason.kind = MsgSafety) =>
       /\ result = "False"
       /\ Len(queries_received) = QueriesBefore
       /\ Len(fix_history) = iteration - 1
  /\ (iteration >= 1 /\ CeilingReached) => pc \in {"check", "checked", "done"}

\* a session stopped by the ceiling in its third iteration, after two
\* iterations in which the oracle answered CONTINUE
C2_Witness ==
  /\ pc = "done"
  /\ iteration = max_iterations /\ iteration >= 3
  /\ should_stop /\ reason.kind = MsgSafety
  /\ notice = MsgSafety
  /\ should_continue
  /\ result = "False"

(***************************************************************************)
(* C4.  With failures present, the ceiling not reached and a previous      *)
(* result available, the outcome is stop-regression-scope exactly when the *)
(* current total is smaller than the previous total by more than 2; the    *)
(* stop is decided before any oracle consultation of that iteration.       *)
(***************************************************************************)
C4_ScopeStopExactlyWhenDropAbove2 ==
  /\ (pc = "checked" /\ Failing /\ ~CeilingReached /\ HasPrev) =>
       /\ (should_stop /\ reason.kind = MsgScope) <=> (Prev.total - Cur.total >= 3)
       /\ Len(queries_received) = QueriesBefore
  /\ (pc = "done" /\ should_stop /\ reason.kind = MsgScope) =>
       /\ result = "False"
       /\ Len(queries_received) = QueriesBefore

\* a drop of exactly 3 between two ordinary runs stops the session
C4_Witness ==
  /\ pc = "done"
  /\ HasPrev /\ Prev.total - Cur.total = 3
  /\ Failing /\ ~CeilingReached
  /\ notice = MsgScope
  /\ result = "False"

\* a drop of exactly 2 does not
C4_WitnessDropOf2 ==
  /\ pc = "checked"
  /\ HasPrev /\ Prev.total - Cur.total = 2
  /\ Failing /\ ~CeilingReached
  /\ reason.kind # MsgScope

(***************************************************************************)
(* C6 as stated.  For two consecutive runs whose failure-summary lists are *)
(* identical, the stopping evaluator yields stop-no-progress.              *)
(***************************************************************************)
C6_IdenticalSummariesYieldNoProgress ==
  (pc = "checked" /\ HasPrev /\ SameSummaries) =>
    (should_stop /\ reason.kind = MsgNoProgress)

(***************************************************************************)
(* C6 amended.  For two consecutive runs whose failure-summary lists are   *)
(* identical the stopping evaluator always stops; the outcome is           *)
(* stop-no-progress unless a condition of higher priority matches (no      *)
(* failures left, ceiling reached, scope regression, count regression),    *)
(* in which case that condition's outcome is reported.                     *)
(***************************************************************************)
C6_IdenticalSummariesStop ==
  (pc = "checked" /\ HasPrev /\ SameSummaries) =>
    /\ should_stop
    /\ (reason.kind = MsgNoProgress) <=>
         (Failing /\ ~CeilingReached /\ ~ScopeDropped /\ ~CountIncreased)
    /\ ~Failing => reason.kind = MsgSuccess

\* two consecutive runs with the same non-empty list, fewer failures
C6_Witness ==
  /\ pc = "checked"
  /\ HasPrev /\ SameSummaries
  /\ Len(Cur.failures) >= 1
  /\ Cur.failed < Prev.failed
  /\ should_stop /\ reason.kind = MsgNoProgress

(***************************************************************************)
(* C7 as stated.  On the first iteration (no previous result) the stopping *)
(* evaluator always continues unless the failed count is already zero.     *)
(***************************************************************************)
C7_FirstIterationContinuesUnlessZeroFailed ==
  (pc = "checked" /\ iteration = 1 /\ ~HasPrev) =>
    (should_stop <=> Cur.failed = 0)

(***************************************************************************)
(* C7 amended.  On the first iteration (no previous result) the stopping   *)
(* evaluator continues unless the failed count is already zero or the      *)
(* iteration ceiling is already reached (a ceiling of 1, or less).         *)
(***************************************************************************)
C7_FirstIterationContinuesBelowCeiling ==
  /\ (pc = "checked" /\ ~HasPrev) =>
       /\ iteration = 1
       /\ should_stop <=> (Cur.failed = 0 \/ max_iterations <= 1)
       /\ ~should_stop => reason = Reason(MsgContinue, <<>>)
  /\ (pc = "checked" /\ iteration = 1) => ~HasPrev

\* a first run with failures and no parseable summary, under a ceiling
\* above 1: the loop goes on
C7_Witness ==
  /\ pc = "checked"
  /\ iteration = 1 /\ ~HasPrev
  /\ Failing /\ Cur.failures = <<>>
  /\ ~should_stop

(***************************************************************************)
(* C10.  fix_tests returns True only if the most recent verification run   *)
(* of the session had zero failures; the terminal states safety ceiling,   *)
(* scope regression, count regression, no progress, oracle declined or     *)
(* unclear, and interruption return False.                                 *)
(***************************************************************************)
C10_TrueOnlyAfterCleanRun ==
  /\ result = "True" =>
       /\ pc = "done"
       /\ Len(current_result) = 1 /\ Cur.failed = 0
       /\ notice = MsgSuccess
  /\ (pc = "done" /\ notice \in {MsgSafety, MsgScope, MsgRegression, MsgNoProgress,
                                 MsgAgent, MsgUnclear, "Interrupted by user",
                                 "Safety limit reached"}) =>
       result = "False"
  /\ (pc = "done" /\ result \in {"True", "False"}) => notice # ""

\* success in a later iteration, after a recorded attempt
C10_Witness ==
  /\ pc = "done"
  /\ result = "True"
  /\ iteration >= 2
  /\ Len(fix_history) >= 1
  /\ Prev.failed >= 1 /\ Cur.failed = 0

(***************************************************************************)
(* Vocabulary of the properties on the continuation question.              *)
(***************************************************************************)
\* the oracle was asked: failures present and a non-empty ledger
OracleAsked == Cur.failed >= 1 /\ Len(fix_history) >= 1

\* the answer holds the token, in any spelling
MentionsContinue == \E i \in 1..Len(response_text) : response_text[i] \in ContinueSpellings

MentionsStop == \E i \in 1..Len(response_text) : response_text[i] \in StopSpellings

\* the answer with every token written in upper case, as one chunk per atom
UpperCaseForm ==
  [i \in 1..Len(response_text) |->
     [has_content |-> TRUE,
      content |-> IF response_text[i] \in ContinueSpellings THEN "CONTINUE:"
                  ELSE IF response_text[i] \in StopSpellings THEN "STOP:"
                  ELSE response_text[i]]]

(***************************************************************************)
(* C8.  When the oracle is asked the continuation question and its answer  *)
(* contains neither token (zero chunks included), should_continue_fixing   *)
(* returns stop with the synthesized 'response unclear' reason; continue   *)
(* is returned only when the answer contains CONTINUE:.                    *)
(***************************************************************************)
C8_UnclearAnswerStops ==
  (pc = "ask_return" /\ OracleAsked) =>
    /\ queries_received = <<"continue">>
    /\ (~MentionsContinue /\ ~MentionsStop) =>
         /\ result = "returned"
         /\ ~should_continue
         /\ agent_reason = AgentReason(MsgUnclear, <<>>)
    /\ (result = "returned" /\ should_continue) =>
         \E i \in 1..Len(response_text) : response_text[i] = "CONTINUE:"

\* the oracle was asked and delivered no text at all
C8_Witness ==
  /\ pc = "ask_return"
  /\ OracleAsked
  /\ queries_received = <<"continue">>
  /\ response_text = <<>>
  /\ result = "returned"
  /\ ~should_continue /\ agent_reason.kind = MsgUnclear

(***************************************************************************)
(* C9.  The continuation tokens are recognised case-insensitively and an   *)
(* oracle-protocol error is never escalated: for every answer text         *)
(* should_continue_fixing returns a (decision, reason) pair without        *)
(* raising, and an answer whose token is written in lower or mixed case    *)
(* gets the same decision as its upper-case form.                          *)
(***************************************************************************)
C9_CaseInsensitiveNeverRaises ==
  (pc = "ask_return" /\ OracleAsked) =>
    /\ result = "returned"
    /\ should_continue =
         should_continue_fixing(fix_history, Cur, UpperCaseForm).should_continue

(***************************************************************************)
(* Vocabulary of the properties of a session.                              *)
(***************************************************************************)
\* number of queries of one kind received by the oracle
RECURSIVE Occurrences(_, _)
Occurrences(q, kind) ==
  IF q = <<>> THEN 0
  ELSE (IF Head(q) = kind THEN 1 ELSE 0) + Occurrences(Tail(q), kind)

\* every run_tests call follows an increment of iteration
VerificationRuns == iteration

(***************************************************************************)
(* C11.  In a session with ceiling N at least 1 there are at most N        *)
(* verification runs and at most N - 1 recorded attempts and applied       *)
(* fixes; with N at most 0 the session returns False without a             *)
(* verification run and without a query to the oracle.                     *)
(***************************************************************************)
C11_RunsAndAttemptsBoundedByCeiling ==
  /\ max_iterations >= 1 =>
       /\ VerificationRuns <= max_iterations
       /\ Len(fix_history) <= max_iterations - 1
       /\ Occurrences(queries_received, "apply") <= max_iterations - 1
  /\ max_iterations <= 0 =>
       /\ VerificationRuns = 0 /\ last_run = "none"
       /\ queries_received = <<>> /\ fix_history = <<>>
       /\ pc = "done" => result = "False"

\* the ceiling of 3 is reached: three runs, two attempts, two applied fixes
C11_Witness ==
  /\ pc = "done" /\ max_iterations = 3
  /\ VerificationRuns = 3
  /\ Len(fix_history) = 2
  /\ Occurrences(queries_received, "apply") = 2
  /\ reason.kind = MsgSafety

\* a session with a negative ceiling has returned
C11_WitnessNegativeCeiling ==
  pc = "done" /\ max_iterations < 0 /\ result = "False" /\ notice = "Safety limit reached"

(***************************************************************************)
(* A session in which every verification run and every oracle exchange     *)
(* comes back: whatever step of fix_tests is possible is eventually taken. *)
(* The interruption is left to the user.                                   *)
(***************************************************************************)
Proceed ==
  \/ RunTests
  \/ RunTestsNotFound
  \/ LoopExhausted
  \/ CheckStop
  \/ StopOrGoOn
  \/ AnalyzeFailures
  \/ ApplyFixes
  \/ RecordAttempt
  \/ AskContinue

SpecFair == Init /\ [][Next]_vars /\ WF_vars(Proceed)

ReturnedFlag == pc = "done" /\ result \in {"True", "False"}

\* the session is over, by a return or by an exception
C12_SessionEnds == <>(pc = "done")

(***************************************************************************)
(* C12.  Provided every verification run and every oracle exchange         *)
(* returns, a fix_tests session ends in a terminal state in which it has   *)
(* returned its flag.                                                      *)
(***************************************************************************)
C12_SessionEndsWithItsFlag ==
  (pc = "done" /\ last_run # "FileNotFoundError") => result \in {"True", "False"}

\* the queries of n consecutive positions of the oracle's log, when every
\* iteration asks for the analysis, the fix and the continuation in turn
IterationQueries == <<"analyze", "apply", "continue">>

ExpectedQueries(n) == [i \in 1..n |-> IterationQueries[((i - 1) % 3) + 1]]

StopNotices == {MsgSuccess, MsgSafety, MsgScope, MsgRegression, MsgNoProgress}

\* the session was ended by the stopping evaluator
MechanicalStop == pc = "done" /\ notice \in StopNotices

\* the session was ended by the answer to the continuation question
OracleStop == pc = "done" /\ (result = "IndexError" \/ notice = agent_reason.kind)
                /\ ~MechanicalStop /\ notice # "Interrupted by user"
                /\ notice # "Safety limit reached" /\ last_run # "FileNotFoundError"

(***************************************************************************)
(* C13.  Within an iteration the run comes first, then the stop            *)
(* evaluation; a stop returns with no query after that run, otherwise the  *)
(* analysis query, the apply-fix query, the append of the attempt and the  *)
(* continuation query follow in this order: the log of the oracle is       *)
(* analyze, apply, continue per completed iteration, the attempt of an     *)
(* iteration is in the ledger before its continuation question, and an     *)
(* iteration that stops mechanically has issued no query.                  *)
(***************************************************************************)
C13_OrderWithinAnIteration ==
  /\ queries_received = ExpectedQueries(Len(queries_received))
  /\ pc \in {"check", "checked", "analyze"} =>
       Len(queries_received) = QueriesBefore /\ Len(fix_history) = iteration - 1
  /\ pc = "apply" =>
       Len(queries_received) = QueriesBefore + 1 /\ Len(fix_history) = iteration - 1
  /\ pc = "record" =>
       Len(queries_received) = QueriesBefore + 2 /\ Len(fix_history) = iteration - 1
  /\ pc = "ask" =>
       Len(queries_received) = QueriesBefore + 2 /\ Len(fix_history) = iteration
  /\ (pc = "loop" \/ OracleStop) =>
       Len(queries_received) = 3 * iteration /\ Len(fix_history) = iteration
  /\ MechanicalStop =>
       Len(queries_received) = QueriesBefore /\ Len(fix_history) = iteration - 1
  /\ \A i \in 1..Len(fix_history) : fix_history[i].iteration = i

\* the second iteration is about to ask the continuation question: five
\* queries so far, the second attempt already in the ledger
C13_Witness ==
  /\ pc = "ask" /\ iteration = 2
  /\ queries_received = <<"analyze", "apply", "continue", "analyze", "apply">>
  /\ Len(fix_history) = 2 /\ fix_history[2].test_result = Cur

\* a mechanical stop in the second iteration: the log holds the three
\* queries of the first iteration only
C13_WitnessMechanicalStop ==
  /\ MechanicalStop /\ iteration = 2
  /\ queries_received = IterationQueries

(***************************************************************************)
(* C14.  A KeyboardInterrupt at any point of the loop halts fix_tests at   *)
(* once: it returns False, no run and no query follows, and the ledger    *)
(* keeps exactly the attempts recorded before the interruption.            *)
(***************************************************************************)
C14_InterruptHaltsAndReturnsFalse ==
  [][/\ (notice # "Interrupted by user" /\ notice' = "Interrupted by user") =>
          /\ pc' = "done" /\ result' = "False"
          /\ fix_history' = fix_history
          /\ queries_received' = queries_received
          /\ iteration' = iteration
     /\ notice = "Interrupted by user" =>
          /\ pc' = "done" /\ result' = "False"
          /\ fix_history' = fix_history
          /\ queries_received' = queries_received
          /\ iteration' = iteration]_vars

\* interrupted between the apply-fix query of the second iteration and the
\* append of its attempt: the ledger holds the first attempt only
C14_Witness ==
  /\ pc = "done" /\ notice = "Interrupted by user" /\ result = "False"
  /\ iteration = 2
  /\ queries_received = <<"analyze", "apply", "continue", "analyze", "apply">>
  /\ Len(fix_history) = 1

(***************************************************************************)
(* C15.  When the verification command cannot be spawned run_tests         *)
(* re-raises FileNotFoundError and the error leaves fix_tests: the run is  *)
(* not retried, no query is sent afterwards and no attempt is appended     *)
(* for that iteration.                                                     *)
(***************************************************************************)
C15_MissingCommandIsFatal ==
  [][/\ (last_run # "FileNotFoundError" /\ last_run' = "FileNotFoundError") =>
          /\ pc' = "done" /\ result' = "FileNotFoundError"
          /\ notice' = notice
          /\ fix_history' = fix_history /\ Len(fix_history) = iteration' - 1
          /\ queries_received' = queries_received
     /\ last_run = "FileNotFoundError" =>
          /\ pc' = "done" /\ result' = "FileNotFoundError"
          /\ iteration' = iteration
          /\ fix_history' = fix_history
          /\ queries_received' = queries_received]_vars

\* the command is missing at the second run: one attempt, three queries
C15_Witness ==
  /\ pc = "done" /\ result = "FileNotFoundError" /\ last_run = "FileNotFoundError"
  /\ iteration = 2 /\ Len(fix_history) = 1 /\ Len(queries_received) = 3

(***************************************************************************)
(* C16.  run_tests does not raise on a timeout: it returns the sentinel    *)
(* (passed 0, failed 999, total 999, exit code -1, the one summary 'Test   *)
(* suite timeout', empty output), for which has_failures is true, so an    *)
(* iteration whose run timed out never ends the session with success.      *)
(***************************************************************************)
C16_TimeoutYieldsFailingSentinel ==
  last_run = "TimeoutExpired" =>
    /\ current_result = Some([passed |-> 0, failed |-> 999, total |-> 999,
                              failures |-> <<"Test suite timeout">>,
                              exit_code |-> -1, full_output |-> <<>>])
    /\ has_failures(Cur)
    /\ result \in {"none", "False", "IndexError"}
    /\ pc \in {"checked", "done"} => reason.kind # MsgSuccess

\* a run timed out at the ceiling: the session stops and returns False
C16_Witness ==
  /\ last_run = "TimeoutExpired" /\ pc = "done"
  /\ Cur.failed = 999 /\ Cur.exit_code = -1
  /\ should_stop /\ reason.kind = MsgSafety /\ result = "False"

\* every run of the session so far timed out
AllRunsTimedOut ==
  /\ last_run = "TimeoutExpired"
  /\ \A i \in 1..Len(fix_history) : fix_history[i].test_result.failed = 999

FailedPositions(ledger, target) ==
  {i \in 1..Len(ledger) : ledger[i].target_function = target /\ ledger[i].success = FALSE}

(***************************************************************************)
(* C18.  After a failed extraction of a target the target is retried only  *)
(* while the ledger holds fewer than 3 failed attempts for it; as soon as  *)
(* it holds 3 the target is removed from the worklist and the loop goes    *)
(* on with the next one.  No target receives a fourth attempt, whatever    *)
(* the iteration ceiling.                                                  *)
(***************************************************************************)
C18_RetryBudgetOfThree ==
  [][/\ (pc = "branch" /\ ~success) =>
          (pc' = "budget" /\ functions_to_extract' = functions_to_extract)
     /\ pc = "budget" =>
          /\ Head(functions_to_extract) = func
          /\ functions_to_extract' =
               IF Cardinality(FailedPositions(attempts, func)) < 3
                 THEN functions_to_extract
               ELSE Tail(functions_to_extract)
     /\ head_attempts' <= 3]_vars

\* three failed attempts on one target, then an attempt on the next one,
\* under a ceiling above 3
C18_Witness ==
  /\ Len(attempts) = 4 /\ max_iterations >= 4
  /\ \A i \in 1..3 : attempts[i].target_function = attempts[1].target_function
                      /\ ~attempts[i].success
  /\ attempts[4].target_function # attempts[1].target_function
  /\ head_attempts = 1

(***************************************************************************)
(* C19.  The attempt ledger is append-only: every earlier state of the     *)
(* ledger is a prefix of the current one, each attempt appends exactly     *)
(* one entry, and the i-th entry carries the sequence number i.            *)
(***************************************************************************)
C19_LedgerIsAppendOnly ==
  [][/\ \/ attempts' = attempts
        \/ /\ Len(attempts') = Len(attempts) + 1
           /\ SubSeq(attempts', 1, Len(attempts)) = attempts
     /\ (pc = "while" /\ pc' = "branch") <=> (Len(attempts') = Len(attempts) + 1)
     /\ \A i \in 1..Len(attempts') : attempts'[i].iteration = i]_vars

\* the third entry of the ledger is written by the first pass of the loop
\* for the second class
C19_Witness ==
  /\ pc = "branch" /\ classes = <<>> /\ iteration = 1
  /\ Len(attempts) = 3 /\ attempts[3].iteration = 3
  /\ ~attempts[1].success /\ attempts[2].success

(***************************************************************************)
(* C20.  _get_failure_history(X) returns exactly the entries of the        *)
(* ledger whose target is X and whose success flag is false, in the order  *)
(* of the ledger; successful attempts and attempts for other targets are   *)
(* left out, and the ledger is unchanged by the query.                     *)
(***************************************************************************)
C20_FailureHistoryIsTheFilteredLedger ==
  [][pc' = "history_return" =>
       /\ attempts' = attempts
       /\ Len(failures') = Cardinality(FailedPositions(attempts, func))
       /\ \A k \in 1..Len(failures') :
            /\ failures'[k].iteration \in FailedPositions(attempts, func)
            /\ failures'[k] = attempts[failures'[k].iteration]
       /\ \A k \in 1..(Len(failures') - 1) :
            failures'[k].iteration < failures'[k + 1].iteration]_vars

\* a ledger with a success for the target, a failure for another target
\* and two failures for the target: the two failures are returned
C20_Witness ==
  /\ pc = "history_return" /\ Len(attempts) = 4
  /\ \E i, j \in 1..4 : /\ attempts[i].target_function = func /\ attempts[i].success
                        /\ attempts[j].target_function # func /\ ~attempts[j].success
  /\ Len(failures) = 2
  /\ failures[1].iteration < failures[2].iteration

(***************************************************************************)
(* Vocabulary of the extraction loop.                                      *)
(***************************************************************************)
\* a step of _extract_function_to_service, from its call to its return
ExtractionStep == pc = "while" /\ pc' = "branch"

ErrNoCode == "Failed to generate refactored code"

\* the attempt the step recorded
Recorded == attempts'[Len(attempts')]

\* the step applied a candidate and the hooks rejected it
CandidateRejected ==
  ExtractionStep /\ ~Recorded.success /\ Recorded.validation_errors # <<ErrNoCode>>

\* the step applied a candidate and the hooks accepted it
CandidateAccepted == ExtractionStep /\ Recorded.success

\* the targets with a successful attempt in the ledger
Extracted == {attempts[i].target_function : i \in {j \in 1..Len(attempts) : attempts[j].success}}

\* C21: when _extract_function_to_service rejects a candidate, the current
\* source is again the text it was immediately before the candidate was
\* applied, so that the extractions accepted earlier are kept.
C21_RejectionRestoresTheTextBefore ==
  [][CandidateRejected => current_source' = current_source]_vars

\* C22: after every completed extraction attempt the current source is the
\* pristine original or a candidate that passed all five hooks for the
\* target of a successful attempt, and the attempt is a success exactly when
\* its candidate passed validation.
C22_CurrentSourceIsOriginalOrAccepted ==
  pc \in {"branch", "budget", "while", "classes", "done"} /\ attempts # <<>> =>
    /\ \/ current_source = original_source
       \/ \E i \in 1..Len(attempts) :
            LET a == attempts[i]
            IN /\ a.success
               /\ hook_outcomes(ast_parse(current_source, a.target_function,
                                          a.service_class_name),
                                a.target_function, a.service_class_name)
                    = <<TRUE, TRUE, TRUE, TRUE, TRUE>>
    /\ \A i \in 1..Len(attempts) : attempts[i].success <=> attempts[i].validation_errors = <<>>
    /\ pc = "branch" => success = attempts[Len(attempts)].success

\* an accepted candidate is the current source, and a rejected one is not
C22_Witness ==
  /\ pc = "branch"
  /\ Len(attempts) = 2
  /\ attempts[1].success /\ current_source = original_source
  /\ attempts[2].validation_errors = <<ErrEnvAccess>>

C22_WitnessAccepted ==
  pc = "branch" /\ success /\ current_source = CodeValid /\ current_source # original_source

\* _refactor_class returned True for every class handed to it so far
ClassesReportedSuccess == pc = "classes" \/ (pc = "done" /\ result = "True")

\* C23: _refactor_class, and with it refactor_file, reports success only if
\* every function targeted for extraction has a successful attempt in the
\* ledger.
C23_SuccessOnlyWhenEveryTargetExtracted ==
  ClassesReportedSuccess =>
    \A i \in 1..Len(attempts) : attempts[i].target_function \in Extracted

\* the file could not be read
ReadFailed == pc = "done" /\ IsNone(file)

\* a class was left with targets when the iteration ceiling was hit
ClassFailed == pc = "done" /\ functions_to_extract # <<>>

\* C24: refactor_file writes the file at most once in a session and only
\* after every class was processed with success; when the file cannot be
\* read or a class fails (the ceiling is hit with targets remaining) it
\* returns False and nothing is written.
C24_WrittenOnceAndOnlyAfterEveryClass ==
  /\ written <= 1
  /\ written = 1 => pc = "done" /\ classes = <<>> /\ functions_to_extract = <<>>
  /\ written = 0 => file \in {None, Some(SourceAsRead)}
  /\ ReadFailed \/ ClassFailed => result = "False" /\ written = 0

\* a class failed at the ceiling after an accepted extraction: no write
C24_Witness ==
  /\ ClassFailed
  /\ Extracted # {}
  /\ result = "False"
  /\ file = Some(SourceAsRead)

C24_WitnessWritten ==
  pc = "done" /\ result = "True" /\ written = 1 /\ file = Some(CodeValid)

C24_WitnessReadFailed == ReadFailed /\ result = "False"

(***************************************************************************)
(* Vocabulary of the validators.                                           *)
(***************************************************************************)
\* _run_validation_hooks of RefactoringAgent returned, on a text that parses
HooksReturned == pc = "hooks_return" /\ args.facts.parses

\* the hooks of RefactorAgentWithHooks returned, for a function that was found
TeamHooksReturned == pc = "team_hooks_return" /\ args.facts.found = "found"

\* what each hook of RefactoringAgent is to say, from the one fact it is about
ExpectedOutcome(facts) ==
  <<facts.service,
    facts.host \in ServiceNamed \/ facts.target \in {"absent", "return forward", "return expression"},
    ~(facts.service /\ facts.execute # "clean"),
    ~(facts.service /\ facts.init # "injected"),
    facts.parses>>

\* the same for the hooks of RefactorAgentWithHooks
TeamExpectedOutcome(facts) ==
  <<facts.span[2] - facts.span[1] + 1 <= 30,
    facts.body \notin {"lambda os.environ", "listcomp os.getenv"},
    facts.body # "requests.get()",
    facts.typed_args,
    facts.typed_return,
    ~facts.default_args>>

\* the position of a message in the order of the hooks
HookOf(message) == CHOOSE i \in 1..Len(HookErrors) : HookErrors[i] = message

Reported(message) == \E k \in 1..Len(returned.errors) : returned.errors[k] = message

C25_WitnessTeam ==
  /\ TeamHooksReturned
  /\ ~returned[1].passed /\ returned[2].passed /\ ~returned[6].passed

\* C26: a failing syntax check short-circuits the rest: for a text that
\* does not parse, validation yields a single failing issue and no outcome
\* of any other rule.
C26_UnparseableYieldsASingleIssue ==
  /\ pc = "hooks_return" /\ ~args.facts.parses =>
       ~returned.passed /\ Len(returned.errors) = 1
  /\ pc = "team_hooks_return" /\ args.facts.found = "syntax error" =>
       Len(returned) = 1 /\ ~returned[1].passed

\* C28: the function-removed hook passes exactly when the function is gone
\* from the original class or reduced there to one forwarding statement, and
\* fails when it still carries any other implementation.
C28_RemovedOrPureDelegation ==
  HooksReturned =>
    (~Reported(ErrNotRemoved) <=> args.facts.target \in {"absent", "return forward", "call forward"})

\* the ways of reading the environment the claim names
ReadsEnvironment(style) == style \in {"os.environ", "os.getenv()"}

\* C29: a unit that reads the environment anywhere in its body, at any
\* depth of nesting, written os.environ or os.getenv(...), fails the
\* no-environment-access check of both validators.
C29_EnvironmentReadIsFoundAtAnyDepth ==
  /\ pc \in {"env_return", "team_env_return"} /\ ReadsEnvironment(args.style) =>
       returned = TRUE
  /\ HooksReturned /\ args.facts.service /\ args.facts.execute # "clean" =>
       Reported(ErrEnvAccess)
  /\ TeamHooksReturned /\ args.facts.body \in {"lambda os.environ", "listcomp os.getenv"} =>
       ~returned[2].passed

\* os.getenv(...) inside a comprehension inside a lambda is found
C29_Witness ==
  /\ pc = "env_return"
  /\ args.style = "os.getenv()"
  /\ args.nesting = <<"Lambda", "ListComp">>
  /\ returned = TRUE

C29_WitnessTeam ==
  /\ pc = "team_env_return"
  /\ args.style = "os.environ"
  /\ Len(args.nesting) = MaxNesting
  /\ returned = TRUE

\* analyze_and_refactor returned after validating a candidate
CandidateValidated ==
  /\ pc = "team_return"
  /\ returned.changes_summary[1] \in {"Fixed validation issue(s), remaining",
                                      "No validation issues were resolved.",
                                      "Refactoring introduced new issue(s)"}

\* C27: analyze_and_refactor accepts a candidate only if all issues of
\* severity error of its post-refactoring batch pass; the file is written
\* only when the result is a success and dry_run is false, a rejected
\* candidate is not written and its result carries no refactored code, and
\* a dry run is never written.
C27_WrittenOnlyOnSuccessOutsideDryRun ==
  pc = "team_return" =>
    /\ returned.success =>
         \A i \in 1..Len(returned.validation_issues) :
           returned.validation_issues[i].severity = "error" =>
             returned.validation_issues[i].passed
    /\ written = 1 =>
         /\ returned.success /\ ~args.dry_run
         /\ file = returned.refactored_code
    /\ ~returned.success => written = 0 /\ file = args.source_file /\ IsNone(returned.refactored_code)
    /\ args.dry_run => written = 0 /\ file = args.source_file

\* the candidate of the method as written is rejected and not written
C27_Witness ==
  /\ CandidateValidated
  /\ IsNone(args.double)
  /\ ~args.dry_run
  /\ ~returned.success
  /\ Len(returned.validation_issues) = 6
  /\ written = 0

C27_WitnessWritten == CandidateValidated /\ written = 1 /\ file # args.source_file

C27_WitnessDryRun == CandidateValidated /\ args.dry_run /\ returned.success /\ written = 0

(***************************************************************************)
(* Vocabulary of the parser: the blocks of the output, told from the       *)
(* output itself.                                                          *)
(***************************************************************************)
Output == args.test_output

\* a delimiter, a run of at least 70 equals signs and a line break, is at i
DelimiterAt(i) == i + 1 <= Len(Output) /\ Output[i] = Rule70 /\ Output[i + 1] = LineBreak

\* the positions at which a block starts
BlockStarts == {1} \cup {i + 2 : i \in {j \in 1..Len(Output) : DelimiterAt(j)}}

\* the last position of the block that starts at s
BlockEnd(s) ==
  LET later == {i \in s..Len(Output) : DelimiterAt(i)}
  IN IF later = {} THEN Len(Output)
     ELSE (CHOOSE i \in later : \A j \in later : i <= j) - 1

\* the block at s starts with FAIL: and its header reads
\* FAIL: <method> (<path>), the path being at position p
HeaderAt(s, p) ==
  /\ s <= Len(Output) /\ Output[s] = TokFail
  /\ p <= BlockEnd(s) - 1
  /\ \E a \in (s + 2)..(p - 3) :
       /\ \A k \in (s + 1)..(a - 1) : Output[k] \in Whitespace
       /\ Output[a] \in Words
       /\ \A k \in (a + 1)..(p - 2) : Output[k] \in Whitespace
  /\ Output[p - 1] = Open
  /\ Output[p] # Close
  /\ \E c \in (p + 1)..BlockEnd(s) : Output[c] = Close

\* the blocks with such a header
Recognised == {s \in BlockStarts : \E p \in s..Len(Output) : HeaderAt(s, p)}

PathOf(s) == Output[CHOOSE p \in s..Len(Output) : HeaderAt(s, p)]

\* the method of the header of the block at s: the word after FAIL:
MethodOf(s) ==
  Output[CHOOSE a \in (s + 1)..Len(Output) :
           Output[a] \in Words /\ \A k \in (s + 1)..(a - 1) : Output[k] \in Whitespace]

\* the number of dots of a path
Dots(path) ==
  CASE path \in {"test_m", "suite"} -> 0
    [] path = "mod.test_m" -> 1
    [] path = "mod.Cls.test_m" -> 2
    [] path = "pkg.mod.Cls.test_m" -> 3

\* the name a record carries for the block at s
NameOf(s) == IF Dots(PathOf(s)) >= 1 THEN PathOf(s) ELSE MethodOf(s)

\* the place of the block at s among the recognised blocks
Rank(s) == Cardinality({t \in Recognised : t <= s})

\* C30: parse_unittest_failures returns exactly one record for each block
\* (a piece of the input between delimiters of at least 70 equals signs)
\* that starts with FAIL: and whose header reads FAIL: <method> (<path>),
\* in the order of the blocks (the blanks of the header are whitespace of
\* any kind); every other block yields no record, and the empty input
\* yields the empty sequence.
C30_OneRecordPerRecognisedBlockInOrder ==
  pc = "parse_return" =>
    /\ Len(returned) = Cardinality(Recognised)
    /\ \A s \in Recognised : returned[Rank(s)].test_name = NameOf(s)
    /\ args.lines = <<>> => returned = <<>>

\* two blocks give two records in the order of the blocks
C30_Witness ==
  /\ pc = "parse_return"
  /\ args.lines = <<"header 3", "rule 70", "header 2">>
  /\ Len(returned) = 2
  /\ returned[1].test_name = "mod.Cls.test_m"
  /\ returned[2].test_name = "mod.test_m"

\* a header without the path in parentheses gives no record
C30_WitnessNoPath ==
  /\ pc = "parse_return"
  /\ args.lines = <<"rule 70", "header no path", "dashes">>
  /\ returned = <<>>

\* C31: the record of a header whose dotted path has 3 or more segments
\* carries the second-to-last segment as the owning class and the whole path
\* as the full name; with exactly 2 segments it carries no owning class and
\* the whole path; with a single segment it carries no owning class and the
\* method of the header.
C31_PathDecomposition ==
  pc = "parse_return" =>
    \A s \in Recognised :
      LET record == returned[Rank(s)]
          path == PathOf(s)
      IN /\ record.test_method = MethodOf(s)
         /\ Dots(path) >= 2 =>
              /\ record.test_class =
                   Some(CASE path = "mod.Cls.test_m" -> "Cls"
                          [] path = "pkg.mod.Cls.test_m" -> "Cls")
              /\ record.test_name = path
         /\ Dots(path) = 1 => record.test_class = None /\ record.test_name = path
         /\ Dots(path) = 0 => record.test_class = None /\ record.test_name = MethodOf(s)

\* a path of four segments, and a single segment that is not the method
C31_Witness ==
  /\ pc = "parse_return"
  /\ args.lines = <<"header 4", "rule 70", "header other">>
  /\ Len(returned) = 2
  /\ returned[1].test_class = Some("Cls") /\ returned[1].test_name = "pkg.mod.Cls.test_m"
  /\ returned[2].test_class = None /\ returned[2].test_name = "test_m"

\* a path of two segments
C31_WitnessTwo ==
  /\ pc = "parse_return"
  /\ args.lines = <<"header 2">>
  /\ Len(returned) = 1
  /\ returned[1].test_class = None /\ returned[1].test_name = "mod.test_m"

(***************************************************************************)
(* Vocabulary of run_tests called on its own: the lines of the primary     *)
(* stream followed by the secondary stream, told from the call.            *)
(***************************************************************************)
RunReturned == pc = "run_return" /\ returned.raised = ""

RunCompleted == RunReturned /\ args.ended.kind = "completed"

Streams == args.ended.stdout \o args.ended.stderr

WithPassed == {LinePassed, LineMarkers}

WithFailed == {LineFailedDetail, LineFailedBare, LineMarkers}

\* the number of lines of the streams that are in S
Marked(S) == Cardinality({i \in 1..Len(Streams) : Streams[i] \in S})

\* C32: every result run_tests returns has total = passed + failed; for a
\* run that completed, passed and failed are the numbers of PASSED and of
\* FAILED markers in the primary stream followed by the secondary stream;
\* the result returned on a timeout satisfies the same equation.
C32_TotalIsPassedPlusFailed ==
  RunReturned =>
    LET r == Get(returned.value)
    IN /\ r.total = r.passed + r.failed
       /\ RunCompleted => r.passed = Marked(WithPassed) /\ r.failed = Marked(WithFailed)
       /\ RunCompleted => r.full_output = Streams /\ r.exit_code = args.ended.returncode

\* markers in both streams, one line carrying both markers
C32_Witness ==
  /\ RunCompleted
  /\ args.ended.stdout = <<LinePassed, LineMarkers>>
  /\ args.ended.stderr = <<LineFailedBare>>
  /\ Get(returned.value).passed = 2
  /\ Get(returned.value).failed = 2
  /\ Get(returned.value).total = 4

\* the result returned on a timeout
C32_WitnessTimeout ==
  /\ RunReturned
  /\ args.ended = TimeoutExpired
  /\ Get(returned.value).passed = 0
  /\ Get(returned.value).failed = TimeoutFailed
  /\ Get(returned.value).total = TimeoutTotal

\* the lines of the form <qualified-name> FAILED - <reason>
StructuredLines == {LineFailedDetail, LineMarkers}

\* the lines of the form <WordEndingInError>: <reason>
ErrorLines == {LineAssertion, LineValueError}

\* the summary of a line
SummaryOf(l) ==
  CASE l = LineFailedDetail -> "t.py::a: E"
    [] l = LineMarkers -> "t.py::test_PASSED: F"
    [] OTHER -> l

\* the summaries of the lines of the streams that are in S, in their order
SummariesOf(S) ==
  LET chosen == SelectSeq(Streams, LAMBDA l : l \in S)
  IN [i \in 1..Len(chosen) |-> SummaryOf(chosen[i])]

\* C33: _extract_failures returns one summary for each line of the form
\* <qualified-name> FAILED - <reason>, in the order of the lines; when there
\* is no such line, and only then, it returns the lines of the form
\* <WordEndingInError>: <reason>, of any error kind.
C33_StructuredElseAnyErrorLine ==
  RunCompleted =>
    Get(returned.value).failures =
      IF Marked(StructuredLines) >= 1 THEN SummariesOf(StructuredLines)
      ELSE SummariesOf(ErrorLines)

(***************************************************************************)
(* Vocabulary of the FakeClaudeService: the calls told from the log.       *)
(***************************************************************************)
\* the calls that read the responses, the queries
Receives(log) == SelectSeq(log, LAMBDA c : c.op = "receive_response")

Queries(log) == SelectSeq(log, LAMBDA c : c.op = "query")

PromptsOf(log) == [i \in 1..Len(Queries(log)) |-> Queries(log)[i].prompt]

\* the k-th configured response, nothing after the last
Configured_kth(k) == IF k <= Len(mock_responses) THEN <<mock_responses[k]>> ELSE <<>>

\* the calls made after the last reset
SinceReset ==
  LET resets == {i \in 1..Len(args) : args[i].op = "reset"}
      last == IF resets = {} THEN 0 ELSE CHOOSE i \in resets : \A j \in resets : j <= i
  IN SubSeq(args, last + 1, Len(args))

\* the calls among the first k - 1 of the sequence that handed out a
\* response and were read to the end
Delivered(calls, k) ==
  Cardinality({j \in 1..(k - 1) : calls[j].drained /\ calls[j].yielded # <<>>})

\* C34 as stated: each receive_response call yields at most one chunk, the
\* k-th call yields the k-th configured response and nothing once the
\* responses are exhausted; the queries are recorded in call order and
\* query_count is the number of recorded queries.
C34_KthCallYieldsKthResponse ==
  pc = "service" =>
    /\ \A k \in 1..Len(Receives(args)) :
         /\ Len(Receives(args)[k].yielded) <= 1
         /\ Receives(args)[k].yielded = Configured_kth(k)
    /\ queries_received = PromptsOf(args)
    /\ query_count = Len(queries_received)

\* C34, amended: counting the calls made since the construction or the
\* last reset, each receive_response call yields at most one chunk; it
\* yields the configured response that follows those handed out to earlier
\* calls that were read to the end (a call whose consumer stops at its
\* chunk does not advance the index), and nothing once the responses are
\* exhausted: when every call is read to the end the k-th call yields the
\* k-th configured response.  The queries are recorded in call order and
\* query_count is the number of recorded queries.
C34_NextResponsePerCallReadToTheEnd ==
  pc = "service" =>
    /\ \A k \in 1..Len(Receives(SinceReset)) :
         /\ Len(Receives(SinceReset)[k].yielded) <= 1
         /\ Receives(SinceReset)[k].yielded =
              Configured_kth(Delivered(Receives(SinceReset), k) + 1)
    /\ response_index = Delivered(Receives(SinceReset), Len(Receives(SinceReset)) + 1)
    /\ queries_received = PromptsOf(SinceReset)
    /\ query_count = Len(queries_received)

\* three calls read to the end on two responses: the first, the second,
\* nothing
C34_Witness ==
  /\ pc = "service"
  /\ mock_responses = <<"r1", "r2">>
  /\ Len(Receives(args)) = 3
  /\ \A k \in 1..3 : Receives(args)[k].drained
  /\ args[1].op = "query"
  /\ Receives(args)[1].yielded = <<"r1">>
  /\ Receives(args)[2].yielded = <<"r2">>
  /\ Receives(args)[3].yielded = <<>>
  /\ query_count = 1

\* a call that was not read to the end: the next call yields its response
\* again
C34_WitnessAbandoned ==
  /\ pc = "service"
  /\ mock_responses = <<"r1", "r2">>
  /\ args = <<ReceiveCall(FALSE, <<"r1">>), ReceiveCall(TRUE, <<"r1">>),
              ReceiveCall(TRUE, <<"r2">>)>>

\* the positions of fix_tests inside an iteration, after its run
InIteration == pc \in {"check", "checked", "analyze", "apply", "record", "ask"}

\* C35: in every iteration k >= 2 of fix_tests previous_result is the result
\* of the run of iteration k - 1, and ledger entry k - 1 carries the
\* iteration number k - 1 and that same result; previous_result is None
\* exactly in iteration 1.  The entry of an iteration is written with the
\* result of its own run.
C35_PreviousResultIsThePrecedingRun ==
  /\ InIteration =>
       /\ iteration >= 1
       /\ previous_result = None <=> iteration = 1
       /\ iteration >= 2 =>
            /\ Len(fix_history) >= iteration - 1
            /\ fix_history[iteration - 1].iteration = iteration - 1
            /\ previous_result = Some(fix_history[iteration - 1].test_result)
  /\ pc = "ask" =>
       /\ Len(fix_history) = iteration
       /\ fix_history[iteration] = FixAttempt(iteration, Get(current_result), fixes)
  /\ pc = "loop" /\ iteration >= 1 =>
       /\ previous_result = current_result
       /\ Len(fix_history) = iteration
       /\ previous_result = Some(fix_history[iteration].test_result)

\* the third iteration after a second run that passed less than the first:
\* previous_result is the second run, not the better first
C35_Witness ==
  /\ pc = "check"
  /\ iteration = 3
  /\ previous_result = Some(fix_history[2].test_result)
  /\ fix_history[1].test_result.passed > fix_history[2].test_result.passed
  /\ fix_history[1].test_result.failed = fix_history[2].test_result.failed

\* the third iteration after a second run with fewer failures than the first
C35_WitnessImproved ==
  /\ pc = "check"
  /\ iteration = 3
  /\ previous_result = Some(fix_history[2].test_result)
  /\ fix_history[1].test_result.failed > fix_history[2].test_result.failed

\* C36: when the answer of the oracle holds both tokens, CONTINUE: and
\* STOP: (recognised in any spelling), should_continue_fixing decides to
\* continue, whatever the order of the two tokens.
C36_ContinueTakesPrecedenceOverStop ==
  (pc = "ask_return" /\ OracleAsked /\ MentionsContinue /\ MentionsStop) =>
    /\ result = "returned"
    /\ should_continue

\* the same for the answers that hold CONTINUE: in upper case; the reason
\* is the text after the first CONTINUE:
C36_UpperCaseContinueTakesPrecedence ==
  (pc = "ask_return" /\ OracleAsked /\ MentionsStop
     /\ \E i \in 1..Len(response_text) : response_text[i] = TokContinue) =>
    /\ result = "returned"
    /\ should_continue
    /\ agent_reason.kind = MsgAgent

(***************************************************************************)
(* C37 as stated.  With a previous result available, the ceiling not       *)
(* reached and neither regression, two consecutive runs with equal summary *)
(* lists (two empty lists included) stop the session as no-progress, also  *)
(* when the failed count decreased between the two runs.                   *)
(***************************************************************************)
C37_EqualSummariesStopAsNoProgress ==
  (pc = "checked" /\ HasPrev /\ ~CeilingReached /\ ~ScopeDropped
     /\ ~CountIncreased /\ SameSummaries) =>
    (should_stop /\ reason.kind = MsgNoProgress)

(***************************************************************************)
(* C37 amended.  The same, for a current run that still has failures: the  *)
(* session stops as no-progress whatever the two failed counts are, and    *)
(* fix_tests then returns False.  A current run without failures stops the *)
(* session as a success instead, equal (empty) summary lists or not.       *)
(***************************************************************************)
C37_EqualSummariesOfFailingRunsStopAsNoProgress ==
  /\ (pc = "checked" /\ HasPrev /\ ~CeilingReached /\ ~ScopeDropped
        /\ ~CountIncreased /\ SameSummaries) =>
       /\ should_stop
       /\ reason.kind = (IF Failing THEN MsgNoProgress ELSE MsgSuccess)
  /\ (pc = "done" /\ notice = MsgNoProgress) =>
       (HasPrev /\ SameSummaries /\ result = return_flag(Cur) /\ Failing)

\* two runs without a parseable failure line, the second with fewer failures
C37_Witness ==
  /\ pc = "checked"
  /\ HasPrev /\ SameSummaries
  /\ Cur.failures = <<>>
  /\ 1 <= Cur.failed /\ Cur.failed < Prev.failed
  /\ should_stop /\ reason.kind = MsgNoProgress

\* the session has ended as no-progress after the failed count went down
C37_WitnessEnded ==
  /\ pc = "done" /\ notice = MsgNoProgress
  /\ HasPrev /\ Cur.failed < Prev.failed
  /\ Len(Cur.failures) >= 1

(***************************************************************************)
(* Vocabulary for the retry budget across classes.  Every pass of the loop *)
(* of _refactor_class records one attempt, so the last `iteration` entries *)
(* of the ledger are those of the class in hand and the entries before     *)
(* them are those of the classes processed earlier.                        *)
(***************************************************************************)
EarlierLedger == SubSeq(attempts, 1, Len(attempts) - iteration)

ClassLedger == SubSeq(attempts, Len(attempts) - iteration + 1, Len(attempts))

EarlierFailures == Len(get_failure_history(EarlierLedger, func))

OwnFailures == Len(get_failure_history(ClassLedger, func))

OwnAttempts == Len(SelectSeq(ClassLedger, LAMBDA attempt : attempt.target_function = func))

\* the budget was just examined for func, after a failed attempt
Decided == pc = "while" /\ iteration >= 1 /\ ~success

\* func was popped from the worklist without a success
Abandoned == Decided /\ (functions_to_extract = <<>> \/ Head(functions_to_extract) # func)

(***************************************************************************)
(* C38.  The retry budget is keyed by function name over the ledger of the *)
(* whole session: after a failed attempt the target is abandoned exactly   *)
(* when the failures recorded under its name, those of classes processed   *)
(* earlier included, number 3 or more; so a target whose name failed in an *)
(* earlier class is abandoned after fewer than 3 attempts of its own.      *)
(***************************************************************************)
C38_BudgetCountsFailuresOfEarlierClasses ==
  /\ pc = "budget" =>
       (failures = get_failure_history(attempts, func)
          /\ Len(failures) = EarlierFailures + OwnFailures)
  /\ Decided => (Abandoned <=> EarlierFailures + OwnFailures >= RetryBudget)
  /\ (Abandoned /\ EarlierFailures >= 1) =>
       (OwnAttempts < RetryBudget /\ OwnAttempts = OwnFailures)

\* f failed three times in the first class and is given up in the second
\* class after one attempt
C38_Witness ==
  /\ Abandoned
  /\ func = "f"
  /\ EarlierFailures = RetryBudget
  /\ OwnAttempts = 1

\* f failed twice in the first class before it was extracted; in the second
\* class it is given up at its first failure
C38_WitnessAfterSuccess ==
  /\ Abandoned
  /\ EarlierFailures = 2
  /\ Len(SelectSeq(EarlierLedger, LAMBDA attempt : attempt.target_function = func /\ attempt.success)) = 1
  /\ OwnAttempts = 1

(***************************************************************************)
(* main of the agent team (src/src/test_fixer_agent_team.py): run_tests,   *)
(* IdentifyFailingTestsAgent.parse_test_output on its result, one          *)
(* analyze_and_refactor for the first failing test, and the exit code.     *)
(* The output of `make test` is a sequence of lines of pytest output (none *)
(* holds a run of 70 equals signs, so parse_test_output takes its pytest   *)
(* branch).  returned is test_result, args holds the command line flag,    *)
(* the log of the steps main has taken and failing_tests.                  *)
(***************************************************************************)
LineSummaryPassed == "3 passed in 0.1s"

LineSummaryMixed == "1 failed, 2 passed in 0.1s"

LinePytestFailed == "tests/test_m.py::test_f FAILED"

LinePytestNoName == "tests/test_m.py::test_ FAILED"

LineMake == "make: *** [test] Error 1"

TeamLines == {LineSummaryPassed, LineSummaryMixed, LinePytestFailed, LinePytestNoName, LineMake}

\* re.search(r'(\d+)\s+passed', line): the number, None without a match
passed_summary(text) ==
  CASE text = LineSummaryPassed -> Some(3)
    [] text = LineSummaryMixed -> Some(2)
    [] OTHER -> None

\* re.search(r'(\d+)\s+failed', line): the number, None without a match
failed_summary(text) ==
  CASE text = LineSummaryMixed -> Some(1)
    [] OTHER -> None

\* re.search over the whole output: the first line that matches decides
RECURSIVE first_match(_)
first_match(matches) ==
  IF matches = <<>> THEN None
  ELSE IF ~IsNone(Head(matches)) THEN Head(matches)
  ELSE first_match(Tail(matches))

TestRunResult(rc, total, passed, failed, out, err) ==
  [exit_code |-> rc, total_tests |-> total, passed_tests |-> passed,
   failed_tests |-> failed, stdout |-> out, stderr |-> err]

TextTimedOut == "Test execution timed out"

TextOfException == "[Errno 2] No such file or directory: 'make'"

\* run_tests of the agent team
team_run_tests(ended) ==
  IF ended.kind = "completed"
    THEN LET combined_output == ended.stdout \o ended.stderr
             summary_match ==
               first_match([i \in 1..Len(combined_output) |-> passed_summary(combined_output[i])])
             failure_match ==
               first_match([i \in 1..Len(combined_output) |-> failed_summary(combined_output[i])])
             passed_tests == IF IsNone(summary_match) THEN 0 ELSE Get(summary_match)
             failed_tests == IF IsNone(failure_match) THEN 0 ELSE Get(failure_match)
         IN TestRunResult(ended.returncode, passed_tests + failed_tests, passed_tests,
                          failed_tests, combined_output, ended.stderr)
  ELSE IF ended.kind = "TimeoutExpired"
    THEN TestRunResult(-1, 0, 0, 0, <<>>, <<TextTimedOut>>)
  ELSE TestRunResult(-1, 0, 0, 0, <<>>, <<TextOfException>>)

\* the matches of r'(tests/[\w/]+\.py)::([\w:]+)\s+FAILED' in a line, as
\* the test method of the FailingTest built from each
pytest_failed(text) ==
  CASE text = LinePytestFailed -> <<"test_f">>
    [] text = LinePytestNoName -> <<"test_">>
    [] OTHER -> <<>>

RECURSIVE pytest_failures(_)
pytest_failures(output) ==
  IF output = <<>> THEN <<>>
  ELSE pytest_failed(Head(output)) \o pytest_failures(Tail(output))

\* IdentifyFailingTestsAgent.parse_test_output, pytest branch
parse_test_output(test_result) ==
  IF test_result.failed_tests = 0 THEN <<>> ELSE pytest_failures(test_result.stdout)

\* how `make test` ends
TeamRuns ==
  {Completed(rc, out, err) :
     rc \in ExitCodes, out \in SeqsUpTo(TeamLines, MaxStdout),
     err \in SeqsUpTo(TeamLines, MaxStderr)}
  \cup {TimeoutExpired, FileNotFound}

\* the source file of the first failing test: missing, without the function,
\* with a function meeting every guideline, with one reading the environment
MainFiles ==
  {None}
  \cup {Some(team_source([found |-> found, span |-> <<1, max_function_lines>>,
                          body |-> body, typed_args |-> TRUE, typed_return |-> TRUE,
                          default_args |-> FALSE], "f")) :
          found \in {"found", "missing"}, body \in {"clean", "listcomp os.getenv"}}

MainArgs(dry_run, steps, failing_tests) ==
  [dry_run |-> dry_run, steps |-> steps, failing_tests |-> failing_tests]

InitMain ==
  /\ max_iterations = 0
  /\ iteration = 0
  /\ NoFixing
  /\ attempts = <<>>
  /\ classes = <<>>
  /\ functions_to_extract = <<>>
  /\ func = ""
  /\ success = FALSE
  /\ failures = <<>>
  /\ current_source = ""
  /\ original_source = ""
  /\ head_attempts = 0
  /\ written = 0
  /\ file \in MainFiles
  /\ pc = "main"
  /\ args \in {MainArgs(dry_run, <<>>, <<>>) : dry_run \in BOOLEAN}
  /\ returned = <<>>
  /\ NoService

\* Step 1: test_result = run_tests()
MainRunTests ==
  /\ pc = "main"
  /\ \E ended \in TeamRuns :
       /\ last_run' = ended.kind
       /\ returned' = team_run_tests(ended)
  /\ args' = [args EXCEPT !.steps = Append(@, "run_tests")]
  /\ pc' = "step 1"
  /\ UNCHANGED <<max_iterations, queries_received, iteration, result>>
  /\ UNCHANGED <<fix_history, current_result, previous_result, should_stop, reason,
                 should_continue, agent_reason, response_text, notice, fixes>>
  /\ UNCHANGED refactor_only
  /\ UNCHANGED service_only

\* variant: a run that did not end with exit code 0 is not taken as passing
MainAllPassing_exit_code ==
  /\ pc = "step 1"
  /\ IF returned.failed_tests = 0 /\ returned.exit_code = 0
       THEN result' = 0 /\ pc' = "done"
     ELSE pc' = "step 2" /\ UNCHANGED result
  /\ UNCHANGED <<max_iterations, queries_received, iteration>>
  /\ UNCHANGED fixer_only
  /\ UNCHANGED refactor_only
  /\ UNCHANGED call_only
  /\ UNCHANGED service_only

\* if test_result.failed_tests == 0: return 0
MainAllPassing ==
  /\ pc = "step 1"
  /\ IF returned.failed_tests = 0
       THEN result' = 0 /\ pc' = "done"
     ELSE pc' = "step 2" /\ UNCHANGED result
  /\ UNCHANGED <<max_iterations, queries_received, iteration>>
  /\ UNCHANGED fixer_only
  /\ UNCHANGED refactor_only
  /\ UNCHANGED call_only
  /\ UNCHANGED service_only

\* Step 2: failing_tests = identify_agent.parse_test_output(test_result);
\* if not failing_tests: return 1
MainIdentify ==
  /\ pc = "step 2"
  /\ LET failing_tests == parse_test_output(returned)
     IN /\ args' = [args EXCEPT !.steps = Append(@, "parse_test_output"),
                                !.failing_tests = failing_tests]
        /\ IF failing_tests = <<>>
             THEN result' = 1 /\ pc' = "done"
           ELSE pc' = "step 3" /\ UNCHANGED result
  /\ UNCHANGED <<max_iterations, queries_received, iteration, returned>>
  /\ UNCHANGED fixer_only
  /\ UNCHANGED refactor_only
  /\ UNCHANGED service_only

\* Steps 3 and 4: analyze_and_refactor for failing_tests[0], and the exit
\* code: 0 if summary.successful_refactorings == summary.total_refactorings
MainRefactor ==
  /\ pc = "step 3"
  /\ LET ret == analyze_and_refactor(args.dry_run, args.failing_tests[1], file, None)
     IN /\ file' = ret.file
        /\ written' = written + ret.written
        /\ result' = IF ret.result.success THEN 0 ELSE 1
  /\ args' = [args EXCEPT !.steps = Append(@, "analyze_and_refactor")]
  /\ pc' = "done"
  /\ UNCHANGED <<max_iterations, queries_received, iteration, returned>>
  /\ UNCHANGED <<attempts, classes, functions_to_extract, func, success, failures,
                 current_source, original_source, head_attempts>>
  /\ UNCHANGED fixer_only
  /\ UNCHANGED service_only

NextMain ==
  \/ MainRunTests
  \/ MainAllPassing
  \/ MainIdentify
  \/ MainRefactor

SpecMain == InitMain /\ [][NextMain]_vars

(***************************************************************************)
(* C39.  In the agent-team pipeline a verification timeout or a runner     *)
(* exception yields a TestRunResult with failed_tests = 0 and exit code    *)
(* -1, and main treats a result with failed_tests = 0 as a passing run: it *)
(* returns exit code 0 without parsing failures or refactoring anything.   *)
(***************************************************************************)
C39_TimeoutIsTakenAsAPassingRun ==
  /\ (pc # "main" /\ last_run \in {"TimeoutExpired", "FileNotFoundError"}) =>
       (returned.failed_tests = 0 /\ returned.exit_code = -1)
  /\ (pc # "main" /\ returned.failed_tests = 0) => pc \in {"step 1", "done"}
  /\ (pc = "done" /\ returned.failed_tests = 0) =>
       /\ result = 0
       /\ args.steps = <<"run_tests">>
       /\ args.failing_tests = <<>>

\* main has returned 0 after the run timed out
C39_Witness ==
  /\ pc = "done"
  /\ last_run = "TimeoutExpired"
  /\ returned.exit_code = -1
  /\ result = 0

\* main has returned 0 after the runner raised
C39_WitnessException ==
  /\ pc = "done"
  /\ last_run = "FileNotFoundError"
  /\ result = 0
  /\ args.steps = <<"run_tests">>

\* a run with failures went through every step
C39_WitnessRefactored ==
  /\ pc = "done"
  /\ returned.failed_tests >= 1
  /\ args.steps = <<"run_tests", "parse_test_output", "analyze_and_refactor">>
  /\ result = 1
====
